---- MODULE Spec2Model ----
(***************************************************************************)
(* Model of the ledger synchronisation layer of the wallet's network       *)
(* worker: the optimistic update ledgers, the fetch operations that        *)
(* overlay and retire optimistic updates, transaction submission, and the  *)
(* memoized subscription caches.                                           *)
(***************************************************************************)
EXTENDS Integers, Sequences, FiniteSets, TLC

(***************************************************************************)
(* Bounds of the model.                                                    *)
(***************************************************************************)
\* number of submissions the servers answer with status 200
MaxSubmits == 2
\* number of operations in a sequence whose updates are folded (SpecFold)
MaxFoldOps == 3
\* number of stream handles the underlying subscribe functions create
MaxHandles == 2
\* number of observers subscribed to one stream handle at a time
MaxObservers == 1
\* number of subscriptions to observe() of the two ledgers
MaxLedgerObservers == 2
\* number of subscribeToAccountUncached calls
MaxAccountSubscriptions == 2
\* number of effects one effects subscription applies
MaxAppliedEffects == 4
\* number of transactions handed to one TransactionSender
MaxSenderTransactions == 2
\* number of submitSignedTransaction calls of one TransactionSender
MaxSenderSubmissions == 2
\* number of requests added to the fetch queues
MaxRequests == 6
\* number of callers of waitForAccountData
MaxWaitCallers == 2
\* number of fetches of one wait
MaxWaitFetches == 3
\* number of messages one event stream delivers
MaxStreamMessages == 3
\* highest id of an open order
MaxOfferID == 3
\* number of transactions of the account on the ledger
MaxLedgerTransactions == 3
\* messages posted to the script context of one managed stream connection
MaxAppMessages == 4
\* messages handed to one deduplicator
MaxDeduplicatedMessages == 3
\* calls of lookupFederationRecord
MaxLookups == 3

(***************************************************************************)
(* Values.                                                                 *)
(***************************************************************************)
\* `undefined` of an optional numeric field
Undef == 0 - 1
\* `undefined` / absent string
NoString == ""
\* `null` result of fetchAccountData (a record, so that it compares with snapshots)
Null == [null |-> TRUE]

URLs == {"u1", "u2"}
\* the endpoint sets (frontierURLs arrays) callers pass to the worker
EndpointSets == {<<"u1">>, <<"u1", "u2">>}
Accounts == {"A", "B"}

NativeLine(balance) ==
    [asset_type |-> "native", asset_code |-> NoString, asset_issuer |-> NoString,
     liquidity_pool_id |-> NoString, balance |-> balance, limit |-> Undef]
AssetLine(code, issuer, balance, limit) ==
    [asset_type |-> "credit_alphanum4", asset_code |-> code, asset_issuer |-> issuer,
     liquidity_pool_id |-> NoString, balance |-> balance, limit |-> limit]
PoolLine(poolId, balance, limit) ==
    [asset_type |-> "liquidity_pool_shares", asset_code |-> NoString, asset_issuer |-> NoString,
     liquidity_pool_id |-> poolId, balance |-> balance, limit |-> limit]
Ed25519Signer(key, weight) == [type |-> "ed25519_public_key", key |-> key, weight |-> weight]
Thresholds(low, med, high) == [low_threshold |-> low, med_threshold |-> med, high_threshold |-> high]

\* the `line` of a changeTrust operation: an Asset or a LiquidityPoolAsset
AssetOf(code, issuer) == [assetType |-> "credit_alphanum4", code |-> code, issuer |-> issuer, poolId |-> NoString]
PoolAssetOf(poolId) == [assetType |-> "liquidity_pool_shares", code |-> NoString, issuer |-> NoString, poolId |-> poolId]
NoLine == [assetType |-> NoString, code |-> NoString, issuer |-> NoString, poolId |-> NoString]
NoSigner == [kind |-> NoString, key |-> NoString, weight |-> Undef]

\* an operation of a transaction, with every optional field present (Undef / NoString when absent)
BlankOperation ==
    [type |-> NoString, source |-> NoString, line |-> NoLine, limit |-> Undef, signer |-> NoSigner,
     lowThreshold |-> Undef, medThreshold |-> Undef, highThreshold |-> Undef, masterWeight |-> Undef]
ChangeTrustOp(source, line, limit) ==
    [BlankOperation EXCEPT !.type = "changeTrust", !.source = source, !.line = line, !.limit = limit]
SetOptionsOp(source, signer, low, med, high, masterWeight) ==
    [BlankOperation EXCEPT !.type = "setOptions", !.source = source, !.signer = signer,
                           !.lowThreshold = low, !.medThreshold = med, !.highThreshold = high,
                           !.masterWeight = masterWeight]
ManageSellOfferOp(source) == [BlankOperation EXCEPT !.type = "manageSellOffer", !.source = source]
PaymentOp(source) == [BlankOperation EXCEPT !.type = "payment", !.source = source]
Ed25519Key(key, weight) == [kind |-> "ed25519PublicKey", key |-> key, weight |-> weight]
Sha256Key(key, weight) == [kind |-> "sha256Hash", key |-> key, weight |-> weight]

(***************************************************************************)
(* Optimistic account updates: change-trust and set-options.               *)
(***************************************************************************)
\* operation.source || transaction.source
EffectsAccountID(operation, transaction) ==
    IF operation.source # NoString THEN operation.source ELSE transaction.source

\* balancelineToAsset(balance).equals(asset): same code and same issuer
BalancelineEqualsAsset(balance, asset) ==
    LET code == IF balance.asset_type = "native" THEN "XDB" ELSE balance.asset_code
        issuer == IF balance.asset_type = "native" THEN NoString ELSE balance.asset_issuer
    IN code = asset.code /\ issuer = asset.issuer

\* the predicate of `balances.some(...)` in addTrustline
TrustlineMatches(balance, line) ==
    IF balance.asset_type = "liquidity_pool_shares" /\ line.assetType = "liquidity_pool_shares"
    THEN balance.liquidity_pool_id = line.poolId
    ELSE IF balance.asset_type # "liquidity_pool_shares" /\ line.assetType # "liquidity_pool_shares"
         THEN BalancelineEqualsAsset(balance, line)
         ELSE FALSE

\* the predicate of `balances.filter(...)` in removeTrustline
TrustlineKept(balance, line) ==
    IF balance.asset_type = "liquidity_pool_shares" /\ line.assetType = "liquidity_pool_shares"
    THEN balance.liquidity_pool_id # line.poolId
    ELSE IF balance.asset_type # "liquidity_pool_shares" /\ line.assetType # "liquidity_pool_shares"
         THEN ~BalancelineEqualsAsset(balance, line)
         ELSE FALSE

NewBalance(operation) ==
    IF operation.line.assetType = "liquidity_pool_shares"
    THEN [asset_type |-> "liquidity_pool_shares", asset_code |-> NoString, asset_issuer |-> NoString,
          liquidity_pool_id |-> operation.line.poolId, balance |-> 0, limit |-> operation.limit]
    ELSE [asset_type |-> "credit_alphanum12", asset_code |-> operation.line.code,
          asset_issuer |-> operation.line.issuer, liquidity_pool_id |-> NoString,
          balance |-> 0, limit |-> operation.limit]

\* addTrustline(...).apply with the presence test left out
addTrustline_AlwaysAppends(operation, prevAccountData) ==
    [prevAccountData EXCEPT !.balances = Append(prevAccountData.balances, NewBalance(operation))]

\* addTrustline(...).apply
addTrustline(operation, prevAccountData) ==
    [prevAccountData EXCEPT !.balances =
        IF \E i \in 1..Len(prevAccountData.balances) :
              TrustlineMatches(prevAccountData.balances[i], operation.line)
        THEN prevAccountData.balances
        ELSE Append(prevAccountData.balances, NewBalance(operation))]

\* removeTrustline(...).apply
removeTrustline(operation, prevAccountData) ==
    [prevAccountData EXCEPT !.balances =
        SelectSeq(prevAccountData.balances, LAMBDA balance : TrustlineKept(balance, operation.line))]

\* addSigner(...).apply that keeps the entries the account already has
addSigner_KeepsExisting(operation, prevAccountData) ==
    [prevAccountData EXCEPT !.signers =
        Append(prevAccountData.signers, Ed25519Signer(operation.signer.key, operation.signer.weight))]

\* addSigner(...).apply
addSigner(operation, prevAccountData) ==
    LET allOtherSigners ==
            SelectSeq(prevAccountData.signers, LAMBDA existing : existing.key # operation.signer.key)
    IN [prevAccountData EXCEPT !.signers =
            Append(allOtherSigners, Ed25519Signer(operation.signer.key, operation.signer.weight))]

\* removeSigner(...).apply
removeSigner(operation, prevAccountData) ==
    [prevAccountData EXCEPT !.signers =
        SelectSeq(prevAccountData.signers,
                  LAMBDA prevSigner : ~(prevSigner.type = "ed25519_public_key"
                                        /\ prevSigner.key = operation.signer.key))]

\* setMasterWeight(...).apply that gives the weight to every signer
setMasterWeight_EverySigner(operation, accountID, prevAccountData) ==
    [prevAccountData EXCEPT !.signers =
        [i \in 1..Len(prevAccountData.signers) |->
            [prevAccountData.signers[i] EXCEPT !.weight = operation.masterWeight]]]

\* setMasterWeight(...).apply; accountID is operation.source || transaction.source
setMasterWeight(operation, accountID, prevAccountData) ==
    [prevAccountData EXCEPT !.signers =
        [i \in 1..Len(prevAccountData.signers) |->
            LET signer == prevAccountData.signers[i]
            IN IF signer.type = "ed25519_public_key" /\ signer.key = accountID
               THEN [signer EXCEPT !.weight = operation.masterWeight]
               ELSE signer]]

\* setThresholds(...).apply
setThresholds(operation, prevAccountData) ==
    LET t0 == prevAccountData.thresholds
        t1 == IF operation.lowThreshold # Undef THEN [t0 EXCEPT !.low_threshold = operation.lowThreshold] ELSE t0
        t2 == IF operation.medThreshold # Undef THEN [t1 EXCEPT !.med_threshold = operation.medThreshold] ELSE t1
        t3 == IF operation.highThreshold # Undef THEN [t2 EXCEPT !.high_threshold = operation.highThreshold] ELSE t2
    IN [prevAccountData EXCEPT !.thresholds = t3]

\* An optimistic update: the closure `apply` is the pair (kind, operation).
OptimisticUpdate(kind, frontierURL, operation, transaction) ==
    [kind |-> kind, operation |-> operation,
     effectsAccountID |-> EffectsAccountID(operation, transaction),
     frontierURL |-> frontierURL, transactionHash |-> transaction.hash]

\* update.apply(base) of an account update
Apply(update, base) ==
    CASE update.kind = "addTrustline" -> addTrustline(update.operation, base)
      [] update.kind = "removeTrustline" -> removeTrustline(update.operation, base)
      [] update.kind = "addSigner" -> addSigner(update.operation, base)
      [] update.kind = "removeSigner" -> removeSigner(update.operation, base)
      [] update.kind = "setMasterWeight" -> setMasterWeight(update.operation, update.effectsAccountID, base)
      [] update.kind = "setThresholds" -> setThresholds(update.operation, base)
      [] OTHER -> base

\* changeTrust (default export of change-trust): BigNumber(operation.limit).eq(0)
handleChangeTrust(frontierURL, operation, transaction) ==
    IF operation.limit = 0
    THEN <<OptimisticUpdate("removeTrustline", frontierURL, operation, transaction)>>
    ELSE <<OptimisticUpdate("addTrustline", frontierURL, operation, transaction)>>

\* setAccountOptions (default export of set-options)
handleSetOptions(frontierURL, operation, transaction) ==
    LET signer == operation.signer
        isEd25519Number == signer.kind = "ed25519PublicKey" /\ signer.weight # Undef
        first ==
            IF isEd25519Number /\ signer.weight > 0
            THEN <<OptimisticUpdate("addSigner", frontierURL, operation, transaction)>>
            ELSE IF isEd25519Number /\ signer.weight = 0
            THEN <<OptimisticUpdate("removeSigner", frontierURL, operation, transaction)>>
            ELSE IF operation.lowThreshold # Undef \/ operation.medThreshold # Undef
                    \/ operation.highThreshold # Undef
            THEN <<OptimisticUpdate("setThresholds", frontierURL, operation, transaction)>>
            ELSE <<>>
        second ==
            IF operation.masterWeight # Undef
            THEN <<OptimisticUpdate("setMasterWeight", frontierURL, operation, transaction)>>
            ELSE <<>>
    IN first \o second

\* handleManageOffer of manage-offer: one offer update per manage-offer operation
handleManageOffer(frontierURL, operation, transaction) ==
    <<OptimisticUpdate("manageOffer", frontierURL, operation, transaction)>>

(***************************************************************************)
(* Transactions the wallet may submit, and what the servers may report.    *)
(***************************************************************************)
FOO == AssetOf("FOO", "ISS")
Transaction(hash, source, operations) == [hash |-> hash, source |-> source, operations |-> operations]

Transactions ==
    { Transaction("h1", "A", <<PaymentOp(NoString), ChangeTrustOp(NoString, FOO, 1000)>>),
      Transaction("h2", "A", <<ChangeTrustOp(NoString, FOO, 0)>>),
      Transaction("h3", "B", <<SetOptionsOp("A", Ed25519Key("K", 2), Undef, Undef, Undef, 0),
                               ManageSellOfferOp(NoString)>>) }
TransactionByHash(hash) == CHOOSE tx \in Transactions : tx.hash = hash

\* the accounts in whose transaction history a transaction shows up
InvolvedAccounts(tx) ==
    {tx.source} \cup {EffectsAccountID(tx.operations[i], tx) : i \in 1..Len(tx.operations)}

\* what GET /accounts/:id may answer with status 200
ServerSnapshots(accountID) ==
    { [account_id |-> accountID, sequence |-> 1, balances |-> <<NativeLine(100)>>,
       signers |-> <<Ed25519Signer(accountID, 1)>>, thresholds |-> Thresholds(0, 0, 0)],
      [account_id |-> accountID, sequence |-> 2,
       balances |-> <<NativeLine(100), AssetLine("FOO", "ISS", 5, 500), PoolLine("P1", 7, 10)>>,
       signers |-> <<Ed25519Signer(accountID, 1), Ed25519Signer("K", 1)>>,
       thresholds |-> Thresholds(1, 1, 1)] }

\* the subsequences of a sequence (pages of a history, which a lagging server may thin out)
RECURSIVE SubSequences(_)
SubSequences(seq) ==
    IF seq = <<>> THEN {<<>>}
    ELSE LET rest == SubSequences(Tail(seq))
         IN rest \cup {<<Head(seq)>> \o r : r \in rest}

Range(seq) == {seq[i] : i \in 1..Len(seq)}

(***************************************************************************)
(* OptimisticUpdateCache: a Map from cache key to the list of updates.     *)
(***************************************************************************)
EmptyMap == [k \in {} |-> <<>>]
MapGet(m, k, default) == IF k \in DOMAIN m THEN m[k] ELSE default
MapSet(m, k, v) == [x \in DOMAIN m \cup {k} |-> IF x = k THEN v ELSE m[x]]

\* createAccountCacheKeyByFilter, also used as createOfferCacheKeyByFilter
createAccountCacheKeyByFilter(frontierURL, accountID) == frontierURL \o "/accounts/" \o accountID
\* createAccountCacheKey / createOfferCacheKey of an update
createCacheKey(update) == createAccountCacheKeyByFilter(update.frontierURL, update.effectsAccountID)

\* addUpdates with the new update put in front of the previous ones
RECURSIVE addUpdates_Prepends(_, _)
addUpdates_Prepends(updates, optimisticUpdates) ==
    IF optimisticUpdates = <<>> THEN updates
    ELSE LET optimisticUpdate == Head(optimisticUpdates)
             selector == createCacheKey(optimisticUpdate)
             prevUpdates == MapGet(updates, selector, <<>>)
         IN addUpdates_Prepends(MapSet(updates, selector, <<optimisticUpdate>> \o prevUpdates),
                                Tail(optimisticUpdates))

\* addUpdates: the Map after the loop over optimisticUpdates
RECURSIVE addUpdates(_, _)
addUpdates(updates, optimisticUpdates) ==
    IF optimisticUpdates = <<>> THEN updates
    ELSE LET optimisticUpdate == Head(optimisticUpdates)
             selector == createCacheKey(optimisticUpdate)
             prevUpdates == MapGet(updates, selector, <<>>)
         IN addUpdates(MapSet(updates, selector, Append(prevUpdates, optimisticUpdate)),
                       Tail(optimisticUpdates))

\* getUpdates(...filterArgs)
getUpdates(updates, frontierURL, accountID) ==
    MapGet(updates, createAccountCacheKeyByFilter(frontierURL, accountID), <<>>)

\* removeStaleUpdates whose filter drops an entry when the URL or the hash matches
removeStaleUpdates_UrlOrHash(updates, frontierURL, latestTransactionHashs) ==
    [selector \in DOMAIN updates |->
        SelectSeq(updates[selector],
                  LAMBDA optUpdate : ~(optUpdate.frontierURL = frontierURL
                                       \/ optUpdate.transactionHash \in Range(latestTransactionHashs)))]

\* removeStaleUpdates: the Map after the loop over its keys
removeStaleUpdates(updates, frontierURL, latestTransactionHashs) ==
    [selector \in DOMAIN updates |->
        LET prevOptimisticUpdates == updates[selector]
            nextOptimisticUpdates ==
                SelectSeq(prevOptimisticUpdates,
                          LAMBDA optUpdate :
                              ~(optUpdate.frontierURL = frontierURL
                                /\ \E i \in 1..Len(latestTransactionHashs) :
                                      latestTransactionHashs[i] = optUpdate.transactionHash))
        IN IF Len(nextOptimisticUpdates) # Len(prevOptimisticUpdates)
           THEN nextOptimisticUpdates
           ELSE prevOptimisticUpdates]

\* the updates an operation yields, per ledger (ingestOperation)
AccountUpdatesOf(frontierURL, operation, transaction) ==
    IF operation.type = "changeTrust" THEN handleChangeTrust(frontierURL, operation, transaction)
    ELSE IF operation.type = "setOptions" THEN handleSetOptions(frontierURL, operation, transaction)
    ELSE <<>>
OfferUpdatesOf(frontierURL, operation, transaction) ==
    IF operation.type = "manageBuyOffer" \/ operation.type = "manageSellOffer"
    THEN handleManageOffer(frontierURL, operation, transaction)
    ELSE <<>>

\* ingestOperation on the pair of ledgers
ingestOperation(ledgers, frontierURL, operation, transaction) ==
    [account |-> addUpdates(ledgers.account, AccountUpdatesOf(frontierURL, operation, transaction)),
     offers |-> addUpdates(ledgers.offers, OfferUpdatesOf(frontierURL, operation, transaction))]

\* handleSubmittedTransaction: the ledgers after the loop over transaction.operations
RECURSIVE IngestFrom(_, _, _, _)
IngestFrom(ledgers, frontierURL, transaction, i) ==
    IF i > Len(transaction.operations) THEN ledgers
    ELSE IngestFrom(ingestOperation(ledgers, frontierURL, transaction.operations[i], transaction),
                    frontierURL, transaction, i + 1)
handleSubmittedTransaction(ledgers, frontierURL, transaction) ==
    IngestFrom(ledgers, frontierURL, transaction, 1)

\* addUpdates with subject.next(optimisticUpdate) called before updates.set(...)
RECURSIVE addUpdatesEmissions_BeforeSet(_, _)
addUpdatesEmissions_BeforeSet(updates, optimisticUpdates) ==
    IF optimisticUpdates = <<>> THEN <<>>
    ELSE LET optimisticUpdate == Head(optimisticUpdates)
         IN <<[update |-> optimisticUpdate, updates |-> updates]>>
                \o addUpdatesEmissions_BeforeSet(addUpdates(updates, <<optimisticUpdate>>),
                                                  Tail(optimisticUpdates))

\* addUpdates: the calls of subject.next(optimisticUpdate) in the loop, in order,
\* each with the Map as it is at the call
RECURSIVE addUpdatesEmissions(_, _)
addUpdatesEmissions(updates, optimisticUpdates) ==
    IF optimisticUpdates = <<>> THEN <<>>
    ELSE LET optimisticUpdate == Head(optimisticUpdates)
             afterSet == addUpdates(updates, <<optimisticUpdate>>)
         IN <<[update |-> optimisticUpdate, updates |-> afterSet]>>
                \o addUpdatesEmissions(afterSet, Tail(optimisticUpdates))

\* ingestOperation: what the two subjects emit, tagged with the ledger
TagEmissions(ledger, emissions) ==
    [i \in 1..Len(emissions) |->
        [ledger |-> ledger, update |-> emissions[i].update, updates |-> emissions[i].updates]]
ingestOperationEmissions(ledgers, frontierURL, operation, transaction) ==
    TagEmissions("account",
                 addUpdatesEmissions(ledgers.account,
                                     AccountUpdatesOf(frontierURL, operation, transaction)))
        \o TagEmissions("offers",
                        addUpdatesEmissions(ledgers.offers,
                                            OfferUpdatesOf(frontierURL, operation, transaction)))

\* handleSubmittedTransaction: the emissions of the loop over transaction.operations
RECURSIVE EmissionsFrom(_, _, _, _)
EmissionsFrom(ledgers, frontierURL, transaction, i) ==
    IF i > Len(transaction.operations) THEN <<>>
    ELSE ingestOperationEmissions(ledgers, frontierURL, transaction.operations[i], transaction)
            \o EmissionsFrom(ingestOperation(ledgers, frontierURL, transaction.operations[i],
                                             transaction),
                             frontierURL, transaction, i + 1)
handleSubmittedTransactionEmissions(ledgers, frontierURL, transaction) ==
    EmissionsFrom(ledgers, frontierURL, transaction, 1)

\* optimisticallyUpdateAccountData with the updates applied last to first
RECURSIVE ReduceRight(_, _)
ReduceRight(optimisticUpdates, accountData) ==
    IF optimisticUpdates = <<>> THEN accountData
    ELSE Apply(Head(optimisticUpdates), ReduceRight(Tail(optimisticUpdates), accountData))

\* optimisticUpdates.reduce((updatedAccountData, update) => update.apply(updatedAccountData), accountData)
RECURSIVE Reduce(_, _)
Reduce(optimisticUpdates, accountData) ==
    IF optimisticUpdates = <<>> THEN accountData
    ELSE Reduce(Tail(optimisticUpdates), Apply(Head(optimisticUpdates), accountData))

\* optimisticallyUpdateAccountData
optimisticallyUpdateAccountData(updates, frontierURL, accountData) ==
    Reduce(getUpdates(updates, frontierURL, accountData.account_id), accountData)

\* removeStaleOptimisticUpdates on the pair of ledgers
removeStaleOptimisticUpdates(ledgers, frontierURL, latestTransactionHashs) ==
    [account |-> removeStaleUpdates(ledgers.account, frontierURL, latestTransactionHashs),
     offers |-> removeStaleUpdates(ledgers.offers, frontierURL, latestTransactionHashs)]

(***************************************************************************)
(* State of the network worker.                                            *)
(***************************************************************************)
VARIABLES
    accountDataUpdates,             \* accountDataUpdates.updates: Map key -> updates
    offerUpdates,                   \* offerUpdates.updates
    roundRobinIndex,                \* the counter of getRandomURL
    accountSubscriptionCache,       \* the five subscription caches: Map key -> stream handle
    effectsSubscriptionCache,
    orderbookSubscriptionCache,
    ordersSubscriptionCache,
    transactionsSubscriptionCache,
    streams,                        \* the stream handles created so far, by handle number
    accepted,                       \* history: the submissions answered with 200, in order
    seen,                           \* history: <<url, hash>> of the records transactions fetches returned
    epochCalls,                     \* history: per cache and key, the calls since the last reset
    staleHandles,                   \* history: the handles that were created before the last reset
    lastOp,                         \* the worker call that completed last, and the status
                                    \* a submission was answered with
    foldBase,                       \* an account record as a server sent it
    foldData,                       \* the record after `folds` overlays of the account's updates
    folds,
    observers,                      \* the observers of accountDataUpdates.observe() and
                                    \* offerUpdates.observe(), with what each was sent
    accountDataCache,               \* accountDataCache: Map key -> account record
    accountSub,                     \* the closure of one subscribeToAccountUncached call
    orderbookSub,                   \* the closure of one subscribeToOrderbookUncached call
    effectsSub,                     \* the closure of one subscribeToAccountEffectsUncached call
    sender,                         \* one TransactionSender component: its state, the
                                    \* promises and timers it created, and what it called
    provider,                       \* one DigitalBitsProvider: its context value and
                                    \* how far its effect has run
    failover,                       \* the last checkFrontierOrFailover call: what the two
                                    \* servers did and what the call returned
    fetchQueues,                    \* fetchQueuesByFrontier: Map URL -> PromiseQueue
    waiting,                        \* one waitForAccountDataUncached call
    effectsStream,                  \* the event stream of one effects subscription
    ordersSub,                      \* one open-orders subscription: latestCursor, latestSet
    transactionsSub,                \* one account-transactions subscription
    streamConnection,               \* one manageStreamConnection call
    deduplicator,                   \* one createMessageDeduplicator closure
    federation                      \* the two caches of lookupFederationRecord

ledgerVars == <<accountDataUpdates, offerUpdates, accepted, seen>>
cacheVars == <<accountSubscriptionCache, effectsSubscriptionCache, orderbookSubscriptionCache,
               ordersSubscriptionCache, transactionsSubscriptionCache>>
streamVars == <<streams, epochCalls, staleHandles>>
foldVars == <<foldBase, foldData, folds>>
\* what the calls of the worker's API leave alone
\* the closures of the other subscriptions
\* the state outside the subscriptions and the two components
\* the state of the library functions and of the two later subscriptions
libVars == <<ordersSub, transactionsSub, streamConnection, deduplicator, federation>>
auxVars == <<failover, fetchQueues, waiting, effectsStream, libVars>>
otherVars == <<orderbookSub, effectsSub, sender, provider, auxVars>>
\* the worker's state outside these closures, the counter of getRandomURL and lastOp
workerVars == <<ledgerVars, foldVars, accountDataCache, observers, accountSub, cacheVars,
                streamVars>>
idleVars == <<foldVars, accountDataCache, otherVars>>
sideVars == <<idleVars, observers, accountSub>>
vars == <<ledgerVars, roundRobinIndex, cacheVars, streamVars, lastOp, sideVars>>

\* The counter is only ever read modulo the length of an endpoint set, so it is
\* kept modulo the least common multiple of those lengths.
RoundRobinPeriod ==
    CHOOSE p \in 1..8 :
        /\ \A frontierURLs \in EndpointSets : p % Len(frontierURLs) = 0
        /\ \A q \in 1..(p - 1) : \E frontierURLs \in EndpointSets : q % Len(frontierURLs) # 0

\* getRandomURL: the URL returned; the counter moves on by NextRoundRobinIndex
getRandomURL(frontierURLs, index) == frontierURLs[(index % Len(frontierURLs)) + 1]
NextRoundRobinIndex(index) == (index + 1) % RoundRobinPeriod

Ledgers == [account |-> accountDataUpdates, offers |-> offerUpdates]

AcceptedHashes == {accepted[i].hash : i \in 1..Len(accepted)}
\* the transaction history of an account, oldest first
HistoryOf(accountID) ==
    LET involved(entry) == accountID \in InvolvedAccounts(TransactionByHash(entry.hash))
        entries == SelectSeq(accepted, involved)
    IN [i \in 1..Len(entries) |-> entries[i].hash]

\* TransactionSender.state after construction, with nothing created or called;
\* 0 stands for null
\* the endpoint lists are arrays: array is the identity the !== operator
\* compares, urls the contents
pubnetURL == "https://frontier.livenet.digitalbits.io"
testnetURL == "https://frontier.testnet.digitalbits.io"
defaultTestnetURL == "https://frontier.testnet.digitalbits.io/"

\* initialValues of the context
initialValues ==
    [isSelectionPending |-> TRUE,
     pubnetFrontierURLs |-> [array |-> "initialValues.pubnetFrontierURLs", urls |-> <<pubnetURL>>],
     testnetFrontierURLs |-> [array |-> "initialValues.testnetFrontierURLs", urls |-> <<defaultTestnetURL>>]]

\* a selection that resolves to lists with the contents of the defaults
initialFrontierSelection_EqualsDefaults ==
    [pubnetFrontierURLs |-> [array |-> "pubnetFrontierURLs", urls |-> <<pubnetURL>>],
     testnetFrontierURLs |-> [array |-> "testnetFrontierURLs", urls |-> <<defaultTestnetURL>>]]

\* what initialFrontierSelection resolves to: two arrays built in the module's
\* async function
initialFrontierSelection ==
    [pubnetFrontierURLs |-> [array |-> "pubnetFrontierURLs", urls |-> <<pubnetURL>>],
     testnetFrontierURLs |-> [array |-> "testnetFrontierURLs", urls |-> <<testnetURL>>]]

\* the provider before it is mounted; resetCalls counts the calls of
\* netWorker.resetAllSubscriptions(), cacheResets those of resetNetworkCaches()
initialProviderState ==
    [status |-> "unmounted", cancelled |-> FALSE, contextValue |-> initialValues,
     resetCalls |-> 0, cacheResets |-> 0]

initialSenderState ==
    [confirmationDialogOpen |-> FALSE,
     passwordError |-> FALSE,
     submissionStatus |-> "before",
     submissionType |-> "default",
     submissionPromise |-> 0,
     signedTransaction |-> 0,
     unsignedTransaction |-> 0,
     transactions |-> 0,        \* transactions handed to setTransaction so far
     calls |-> <<>>,            \* submitSignedTransaction calls, with their progress
     promises |-> <<>>,         \* the submission promises created, by number
     timers |-> {},             \* setTimeout callbacks not yet run
     signed |-> 0,              \* signTransaction calls
     thrown |-> 0,              \* errors submitTransaction rejected with
     completed |-> <<>>,        \* onSubmissionCompleted calls
     failures |-> <<>>,         \* onSubmissionFailure calls
     submissionSuccessCallbacks |-> <<>>,   \* resolve of the promises setTransaction returned
     submissionClosedCallbacks |-> <<>>,    \* reject of the promises setTransaction returned
     \* the promise setTransaction returned for each transaction
     sendPromises |-> [transaction \in 1..MaxSenderTransactions |-> "none"]]

\* the worker after its module was loaded
InitWorker(ledgers) ==
    /\ accountDataUpdates = ledgers.account
    /\ offerUpdates = ledgers.offers
    /\ roundRobinIndex = 0
    /\ accountSubscriptionCache = EmptyMap
    /\ effectsSubscriptionCache = EmptyMap
    /\ orderbookSubscriptionCache = EmptyMap
    /\ ordersSubscriptionCache = EmptyMap
    /\ transactionsSubscriptionCache = EmptyMap
    /\ streams = <<>>
    /\ accepted = <<>>
    /\ seen = {}
    /\ epochCalls = EmptyMap
    /\ staleHandles = {}
    /\ lastOp = [op |-> "none", responseStatus |-> Undef]
    /\ observers = <<>>
    /\ accountDataCache = EmptyMap
    /\ accountSub = [status |-> "none", calls |-> 0]
    /\ orderbookSub = [status |-> "none"]
    /\ effectsSub = [status |-> "none"]
    /\ sender = initialSenderState
    /\ provider = initialProviderState
    /\ failover = [status |-> "none"]
    /\ fetchQueues = EmptyMap
    /\ waiting = [status |-> "none", pending |-> FALSE, starter |-> 0, joined |-> {},
                  called |-> {}, cancelRequested |-> {}, polled |-> {}, atFetch |-> {},
                  fetches |-> 0, error |-> "none", loops |-> 0, started |-> 0,
                  promiseOf |-> [caller \in 1..MaxWaitCallers |-> 0]]
    /\ effectsStream = [status |-> "none", received |-> <<>>, forwarded |-> <<>>]
    /\ ordersSub = [status |-> "none", latestCursor |-> Undef, latestSet |-> <<>>,
                    fetched |-> <<>>, highest |-> 0, applied |-> FALSE]
    /\ transactionsSub = [status |-> "none", ledger |-> 0, latestCursor |-> Undef,
                          initial |-> "none", initialSeen |-> 0, initialLate |-> FALSE,
                          effects |-> 0, iteration |-> 0, stage |-> "idle", page |-> <<>>,
                          emitted |-> <<>>]
    /\ streamConnection = [status |-> "none", listening |-> FALSE, connections |-> <<>>,
                           unsubscribeFromCurrent |-> 0, messages |-> <<>>]
    /\ deduplicator = [status |-> "none", lastMessageJson |-> <<>>, received |-> <<>>,
                       handled |-> <<>>]
    /\ federation = [lookupCache |-> <<>>, reverseLookupCache |-> <<>>, calls |-> <<>>,
                     networkCalls |-> 0]

Init ==
    /\ InitWorker([account |-> EmptyMap, offers |-> EmptyMap])
    /\ foldBase = Null
    /\ foldData = Null
    /\ folds = 0

(***************************************************************************)
(* submitTransaction                                                       *)
(***************************************************************************)
SubmitStatuses == {200, 400}
\* the JSON body of the submission response
ResponseBody(status, hash) == [successful |-> status = 200, hash |-> hash]

\* the ledgers after the response was handled, with the status test left out
LedgersAfterSubmit_AnyStatus(ledgers, frontierURL, transaction, status) ==
    handleSubmittedTransaction(ledgers, frontierURL, transaction)

\* if (response.status === 200) handleSubmittedTransaction(...)
LedgersAfterSubmit(ledgers, frontierURL, transaction, status) ==
    IF status = 200
    THEN handleSubmittedTransaction(ledgers, frontierURL, transaction)
    ELSE ledgers

\* what the subjects emit while the response is handled
EmissionsAfterSubmit(ledgers, frontierURL, transaction, status) ==
    IF status = 200
    THEN handleSubmittedTransactionEmissions(ledgers, frontierURL, transaction)
    ELSE <<>>

\* An observer of observe() runs inside subject.next(update): it is sent the
\* update and can read the ledger as it is at that moment. `stored` records
\* whether getUpdates returned the update for its key then.
Received(emission) ==
    [update |-> emission.update,
     stored |-> \E i \in 1..Len(getUpdates(emission.updates, emission.update.frontierURL,
                                            emission.update.effectsAccountID)) :
                    getUpdates(emission.updates, emission.update.frontierURL,
                               emission.update.effectsAccountID)[i] = emission.update]
RECURSIVE Deliver(_, _)
Deliver(observer, emissions) ==
    IF emissions = <<>> \/ ~observer.subscribed THEN observer
    ELSE Deliver(IF Head(emissions).ledger = observer.ledger
                 THEN [observer EXCEPT !.log = Append(@, Received(Head(emissions)))]
                 ELSE observer,
                 Tail(emissions))

\* createSnapshot: JSON.stringify([accountData.sequence, accountData.balances]);
\* the string is determined by the sequence number and the balance lines in order
createSnapshot(accountData) == <<accountData.sequence, accountData.balances>>
\* `let latestSnapshot: string | undefined` before it is assigned
NoSnapshot == <<>>

\* shouldApplyUpdate of the account subscription with every non-null update applied
accountShouldApplyUpdate_IgnoresSnapshot(latestSnapshot, update) ==
    update # Null

\* shouldApplyUpdate of the account subscription
accountShouldApplyUpdate(latestSnapshot, update) ==
    /\ update # Null
    /\ (latestSnapshot = NoSnapshot \/ createSnapshot(update) # latestSnapshot)

\* handleNewOptimisticUpdate of a subscription's closure, run inside subject.next
\* with the Map `updates` as it is then; Null stands for undefined
handleNewOptimisticUpdate(sub, cache, updates, newOptimisticUpdate) ==
    LET accountData == MapGet(cache, sub.cacheKey, Null)
    IN IF /\ newOptimisticUpdate.effectsAccountID = sub.accountID
          /\ newOptimisticUpdate.frontierURL = sub.frontierURL
       THEN IF accountData # Null
            THEN optimisticallyUpdateAccountData(updates, sub.frontierURL, accountData)
            ELSE accountData
       ELSE accountData

\* accountDataUpdates.observe().pipe(map(handleNewOptimisticUpdate), filter(Boolean)):
\* what the account subscription's update stream yields for the emissions
RECURSIVE StreamedCandidates(_, _, _)
StreamedCandidates(sub, cache, emissions) ==
    IF emissions = <<>> THEN <<>>
    ELSE LET emission == Head(emissions)
             candidate == handleNewOptimisticUpdate(sub, cache, emission.updates, emission.update)
         IN (IF emission.ledger = "account" /\ candidate # Null
             THEN <<[update |-> emission.update, candidate |-> candidate]>>
             ELSE <<>>)
                \o StreamedCandidates(sub, cache, Tail(emissions))

\* return { status: response.status, data: await response.json() }
SubmitTransactionResult(status, body) == [status |-> status, data |-> body]

\* The continuation of the awaited response runs without interruption up to
\* `await response.json()`. A server answers 200 to a transaction once.
SubmitTransaction(frontierURL, transaction, status) ==
    /\ status = 200 => /\ transaction.hash \notin AcceptedHashes
                       /\ Len(accepted) < MaxSubmits
    /\ LET after == LedgersAfterSubmit(Ledgers, frontierURL, transaction, status)
       IN /\ accountDataUpdates' = after.account
          /\ offerUpdates' = after.offers
    /\ accepted' = IF status = 200
                   THEN Append(accepted, [hash |-> transaction.hash, frontierURL |-> frontierURL])
                   ELSE accepted
    /\ observers' = [o \in DOMAIN observers |->
                        Deliver(observers[o],
                                EmissionsAfterSubmit(Ledgers, frontierURL, transaction, status))]
    /\ accountSub' =
          IF accountSub.status = "live"
          THEN [accountSub EXCEPT !.streamed =
                    @ + Len(StreamedCandidates(accountSub, accountDataCache,
                                               EmissionsAfterSubmit(Ledgers, frontierURL,
                                                                    transaction, status)))]
          ELSE accountSub
    /\ lastOp' = [op |-> "submitTransaction", responseStatus |-> status]
    /\ UNCHANGED <<idleVars, seen, roundRobinIndex, cacheVars, streamVars>>

(***************************************************************************)
(* fetchAccountData, fetchAccountTransactions                              *)
(***************************************************************************)
\* the frontierURLs argument of fetchAccountData: an array, or one URL as a string
FetchArguments ==
    {[isArray |-> TRUE, urls |-> frontierURLs] : frontierURLs \in EndpointSets}
        \cup {[isArray |-> FALSE, urls |-> <<url>>] : url \in URLs}

\* Array.isArray(frontierURLs) ? getRandomURL(frontierURLs) : frontierURLs
FetchAccountDataURL(frontierURLs, index) ==
    IF frontierURLs.isArray THEN getRandomURL(frontierURLs.urls, index) ELSE frontierURLs.urls[1]

\* accountData.balances.filter(b => b.asset_type !== "liquidity_pool_shares")
WithoutLiquidityPools(accountData) ==
    [accountData EXCEPT !.balances =
        SelectSeq(accountData.balances, LAMBDA b : b.asset_type # "liquidity_pool_shares")]

\* the value fetchAccountData resolves with when the server at frontierURL answers
\* with the given status and, unless it is 404, the account record accountData
FetchAccountDataResult(updates, frontierURL, status, accountData) ==
    IF status = 404 THEN Null
    ELSE optimisticallyUpdateAccountData(updates, frontierURL, WithoutLiquidityPools(accountData))

\* fetchAccountData changes no state but the counter of getRandomURL; what it
\* returns is FetchAccountDataResult of the ledger at the time of the response
FetchAccountData(frontierURLs, accountID) ==
    /\ roundRobinIndex' = IF frontierURLs.isArray
                          THEN NextRoundRobinIndex(roundRobinIndex)
                          ELSE roundRobinIndex
    /\ lastOp' = [op |-> "fetchAccountData", responseStatus |-> Undef]
    /\ UNCHANGED <<ledgerVars, sideVars, cacheVars, streamVars>>

\* status 200: the page is parsed and the stale updates are removed;
\* status 404 with emptyOn404: an empty page is returned before any removal
FetchAccountTransactions(frontierURLs, accountID, status, records) ==
    LET frontierURL == getRandomURL(frontierURLs, roundRobinIndex)
        after == IF status = 404 THEN Ledgers
                 ELSE removeStaleOptimisticUpdates(Ledgers, frontierURL, records)
    IN /\ status = 404 => records = <<>>
       /\ roundRobinIndex' = NextRoundRobinIndex(roundRobinIndex)
       /\ accountDataUpdates' = after.account
       /\ offerUpdates' = after.offers
       /\ seen' = seen \cup {<<frontierURL, records[i]>> : i \in 1..Len(records)}
       /\ lastOp' = [op |-> "fetchAccountTransactions", responseStatus |-> Undef]
       /\ UNCHANGED <<sideVars, accepted, cacheVars, streamVars>>

(***************************************************************************)
(* The memoized subscribe functions (cachify) and resetAllSubscriptions.   *)
(***************************************************************************)
\* what callers subscribe to
SubscriptionEndpointSets == {<<"u1", "u2">>}
SellingAssetIDs == {"XDB"}
BuyingAssetIDs == {"XDB", "ISS:FOO"}

\* the array of `${url}:` in a template literal: its elements joined by ","
RECURSIVE JoinURLs(_)
JoinURLs(frontierURLs) ==
    IF frontierURLs = <<>> THEN ""
    ELSE IF Len(frontierURLs) = 1 THEN frontierURLs[1] \o ":"
    ELSE frontierURLs[1] \o ":" \o "," \o JoinURLs(Tail(frontierURLs))

createAccountCacheKey(frontierURLs, accountID) == JoinURLs(frontierURLs) \o accountID
createOrderbookCacheKey(frontierURLs, sellingAsset, buyingAsset) ==
    JoinURLs(frontierURLs) \o sellingAsset \o ":" \o buyingAsset

\* a stream handle (Observable) as the underlying subscribe function returns it;
\* `upstream` is false for Observable.from([...]), which has no connection
NewStream(kind, cacheKey, upstream) ==
    [kind |-> kind, cacheKey |-> cacheKey, upstream |-> upstream, status |-> "open", observers |-> 0]

\* cachify without cache.set
cachify_NeverStores(cache, cacheKey, created) ==
    IF cacheKey \in DOMAIN cache
    THEN [observable |-> cache[cacheKey], cache |-> cache, subscribed |-> FALSE]
    ELSE [observable |-> created, cache |-> cache, subscribed |-> TRUE]

\* The function cachify returns, called with arguments whose key is cacheKey:
\* the observable returned, the cache afterwards, and whether subscribe was called.
\* `created` is the handle the underlying subscribe function returns if it is called.
cachify(cache, cacheKey, created) ==
    IF cacheKey \in DOMAIN cache
    THEN [observable |-> cache[cacheKey], cache |-> cache, subscribed |-> FALSE]
    ELSE [observable |-> created, cache |-> MapSet(cache, cacheKey, created), subscribed |-> TRUE]

\* history: a call of a memoized subscribe function is added to the calls of its
\* cache and key: the handles returned, how often the underlying function was
\* called, whether a second call was made, whether an ended stream was returned
RecordCall(calls, kind, cacheKey, call) ==
    LET slot == <<kind, cacheKey>>
        before == MapGet(calls, slot, [returned |-> {}, subscribed |-> 0, repeated |-> FALSE,
                                       endedReturned |-> FALSE])
    IN MapSet(calls, slot,
              [returned |-> before.returned \cup {call.observable},
               subscribed |-> before.subscribed + (IF call.subscribed THEN 1 ELSE 0),
               repeated |-> slot \in DOMAIN calls,
               endedReturned |-> \/ before.endedReturned
                                 \/ /\ ~call.subscribed
                                    /\ streams[call.observable].status # "open"])

\* subscribeToAccount, subscribeToAccountEffects and subscribeToOpenOrders: the
\* uncached function takes a URL from getRandomURL and returns a new stream
SubscribeByAccount(kind, cache, frontierURLs, accountID) ==
    LET cacheKey == createAccountCacheKey(frontierURLs, accountID)
        call == cachify(cache, cacheKey, Len(streams) + 1)
    IN /\ call.subscribed => Len(streams) < MaxHandles
       /\ cache' = call.cache
       /\ streams' = IF call.subscribed
                     THEN Append(streams, NewStream(kind, cacheKey, TRUE))
                     ELSE streams
       /\ roundRobinIndex' = IF call.subscribed
                             THEN NextRoundRobinIndex(roundRobinIndex)
                             ELSE roundRobinIndex
       /\ epochCalls' = RecordCall(epochCalls, kind, cacheKey, call)
       /\ UNCHANGED <<ledgerVars, sideVars, staleHandles, lastOp>>

SubscribeToAccount(frontierURLs, accountID) ==
    /\ SubscribeByAccount("account", accountSubscriptionCache, frontierURLs, accountID)
    /\ UNCHANGED <<effectsSubscriptionCache, orderbookSubscriptionCache, ordersSubscriptionCache,
                   transactionsSubscriptionCache>>

SubscribeToAccountEffects(frontierURLs, accountID) ==
    /\ SubscribeByAccount("effects", effectsSubscriptionCache, frontierURLs, accountID)
    /\ UNCHANGED <<accountSubscriptionCache, orderbookSubscriptionCache, ordersSubscriptionCache,
                   transactionsSubscriptionCache>>

SubscribeToOpenOrders(frontierURLs, accountID) ==
    /\ SubscribeByAccount("orders", ordersSubscriptionCache, frontierURLs, accountID)
    /\ UNCHANGED <<accountSubscriptionCache, effectsSubscriptionCache, orderbookSubscriptionCache,
                   transactionsSubscriptionCache>>

\* subscribeToAccountTransactions: the uncached function starts fetchInitial (whose
\* fetchAccountTransactions takes a URL from getRandomURL), calls the memoized
\* subscribeToAccountEffects, and returns a multicast stream over it
SubscribeToAccountTransactions(frontierURLs, accountID) ==
    LET cacheKey == createAccountCacheKey(frontierURLs, accountID)
        hit == cacheKey \in DOMAIN transactionsSubscriptionCache
        afterFetchInitial == NextRoundRobinIndex(roundRobinIndex)
        effects == cachify(effectsSubscriptionCache, cacheKey, Len(streams) + 1)
        streamsWithEffects == IF effects.subscribed
                              THEN Append(streams, NewStream("effects", cacheKey, TRUE))
                              ELSE streams
        call == cachify(transactionsSubscriptionCache, cacheKey, Len(streamsWithEffects) + 1)
    IN IF hit
       THEN /\ epochCalls' = RecordCall(epochCalls, "transactions", cacheKey,
                                        cachify(transactionsSubscriptionCache, cacheKey, 0))
            /\ UNCHANGED <<ledgerVars, sideVars, roundRobinIndex, cacheVars, streams, staleHandles, lastOp>>
       ELSE /\ Len(streamsWithEffects) < MaxHandles
            /\ roundRobinIndex' = IF effects.subscribed
                                  THEN NextRoundRobinIndex(afterFetchInitial)
                                  ELSE afterFetchInitial
            /\ effectsSubscriptionCache' = effects.cache
            /\ transactionsSubscriptionCache' = call.cache
            /\ streams' = Append(streamsWithEffects, NewStream("transactions", cacheKey, TRUE))
            /\ epochCalls' = RecordCall(RecordCall(epochCalls, "effects", cacheKey, effects),
                                        "transactions", cacheKey, call)
            /\ UNCHANGED <<ledgerVars, sideVars, accountSubscriptionCache, orderbookSubscriptionCache,
                           ordersSubscriptionCache, staleHandles, lastOp>>

\* subscribeToOrderbook: for equal assets the uncached function returns
\* Observable.from([empty record]) without taking a URL
SubscribeToOrderbook(frontierURLs, sellingAsset, buyingAsset) ==
    LET cacheKey == createOrderbookCacheKey(frontierURLs, sellingAsset, buyingAsset)
        call == cachify(orderbookSubscriptionCache, cacheKey, Len(streams) + 1)
        sameAsset == sellingAsset = buyingAsset
    IN /\ call.subscribed => Len(streams) < MaxHandles
       /\ orderbookSubscriptionCache' = call.cache
       /\ streams' = IF call.subscribed
                     THEN Append(streams, NewStream("orderbook", cacheKey, ~sameAsset))
                     ELSE streams
       /\ roundRobinIndex' = IF call.subscribed /\ ~sameAsset
                             THEN NextRoundRobinIndex(roundRobinIndex)
                             ELSE roundRobinIndex
       /\ epochCalls' = RecordCall(epochCalls, "orderbook", cacheKey, call)
       /\ UNCHANGED <<ledgerVars, sideVars, accountSubscriptionCache, effectsSubscriptionCache,
                      ordersSubscriptionCache, transactionsSubscriptionCache, staleHandles, lastOp>>

\* what resetAllSubscriptions leaves alone outside the ledgers
resetKeeps == <<foldVars, accountDataCache, orderbookSub, effectsSub, sender, observers, accountSub,
               auxVars>>

\* the call returns to the endpoint selector when it is the one awaiting it
resetAcknowledged(state) ==
    IF state.status = "callingReset" THEN [state EXCEPT !.status = "resetReturned"] ELSE state

\* resetSubscriptions of lib/subscription: the streams already handed out stay
\* as they are, with their observers
resetSubscriptions(handles) == handles

\* resetAllSubscriptions that forgets the open-orders cache
ResetAllSubscriptions_KeepsOrders ==
    /\ accountSubscriptionCache' = EmptyMap
    /\ effectsSubscriptionCache' = EmptyMap
    /\ orderbookSubscriptionCache' = EmptyMap
    /\ transactionsSubscriptionCache' = EmptyMap
    /\ streams' = resetSubscriptions(streams)
    /\ epochCalls' = EmptyMap
    /\ staleHandles' = 1..Len(streams)
    /\ lastOp' = [op |-> "resetAllSubscriptions", responseStatus |-> Undef]
    /\ provider' = resetAcknowledged(provider)
    /\ UNCHANGED <<ledgerVars, resetKeeps, roundRobinIndex, ordersSubscriptionCache>>

\* resetAllSubscriptions that also empties the optimistic update ledgers
ResetAllSubscriptions_ClearsLedgers ==
    /\ accountSubscriptionCache' = EmptyMap
    /\ effectsSubscriptionCache' = EmptyMap
    /\ orderbookSubscriptionCache' = EmptyMap
    /\ ordersSubscriptionCache' = EmptyMap
    /\ transactionsSubscriptionCache' = EmptyMap
    /\ streams' = resetSubscriptions(streams)
    /\ epochCalls' = EmptyMap
    /\ staleHandles' = 1..Len(streams)
    /\ lastOp' = [op |-> "resetAllSubscriptions", responseStatus |-> Undef]
    /\ accountDataUpdates' = EmptyMap
    /\ offerUpdates' = EmptyMap
    /\ provider' = resetAcknowledged(provider)
    /\ UNCHANGED <<resetKeeps, accepted, seen, roundRobinIndex>>

ResetAllSubscriptions ==
    /\ accountSubscriptionCache' = EmptyMap
    /\ effectsSubscriptionCache' = EmptyMap
    /\ orderbookSubscriptionCache' = EmptyMap
    /\ ordersSubscriptionCache' = EmptyMap
    /\ transactionsSubscriptionCache' = EmptyMap
    /\ streams' = resetSubscriptions(streams)
    /\ epochCalls' = EmptyMap
    /\ staleHandles' = 1..Len(streams)
    /\ lastOp' = [op |-> "resetAllSubscriptions", responseStatus |-> Undef]
    /\ provider' = resetAcknowledged(provider)
    /\ UNCHANGED <<ledgerVars, resetKeeps, roundRobinIndex>>

(***************************************************************************)
(* Observers of a stream handle, and the end of a stream.                  *)
(***************************************************************************)
\* an observer subscribes to the handle: the stream connects upstream while it
\* has observers
Observe(handle) ==
    /\ streams[handle].upstream
    /\ streams[handle].status = "open"
    /\ streams[handle].observers < MaxObservers
    /\ streams' = [streams EXCEPT ![handle].observers = @ + 1]
    /\ UNCHANGED <<ledgerVars, sideVars, roundRobinIndex, cacheVars, epochCalls, staleHandles, lastOp>>

Unobserve(handle) ==
    /\ streams[handle].observers > 0
    /\ streams' = [streams EXCEPT ![handle].observers = @ - 1]
    /\ UNCHANGED <<ledgerVars, sideVars, roundRobinIndex, cacheVars, epochCalls, staleHandles, lastOp>>

\* observer.complete(): the effects stream after account_removed, and the streams
\* derived from it
StreamCompletes(handle) ==
    /\ streams[handle].kind \in {"effects", "transactions"}
    /\ streams[handle].status = "open"
    /\ streams' = [streams EXCEPT ![handle].status = "completed", ![handle].observers = 0]
    /\ UNCHANGED <<ledgerVars, sideVars, roundRobinIndex, cacheVars, epochCalls, staleHandles, lastOp>>

\* observer.error(error) after an unexpected error
StreamErrors(handle) ==
    /\ streams[handle].upstream
    /\ streams[handle].status = "open"
    /\ streams' = [streams EXCEPT ![handle].status = "errored", ![handle].observers = 0]
    /\ UNCHANGED <<ledgerVars, sideVars, roundRobinIndex, cacheVars, epochCalls, staleHandles, lastOp>>

(***************************************************************************)
(* One account subscription: the closure of subscribeToAccountUncached,    *)
(* run by the update-and-poll coordinator (init, then for every value of   *)
(* subscribeToUpdates: fetchUpdate, shouldApplyUpdate, applyUpdate).       *)
(***************************************************************************)
\* subscribeToAccountUncached(frontierURLs, accountID) up to the call of
\* subscribeToUpdatesAndPoll
SubscribeToAccountUncached(frontierURLs, accountID) ==
    /\ accountSub.status = "none"
    /\ accountSub.calls < MaxAccountSubscriptions
    /\ accountSub' = [status |-> "created",
                      calls |-> accountSub.calls + 1,
                      frontierURLs |-> frontierURLs,
                      accountID |-> accountID,
                      frontierURL |-> getRandomURL(frontierURLs, roundRobinIndex),
                      cacheKey |-> createAccountCacheKey(frontierURLs, accountID),
                      latestSnapshot |-> NoSnapshot,
                      streamed |-> 0,
                      fetched |-> Null,
                      applied |-> FALSE]
    /\ roundRobinIndex' = NextRoundRobinIndex(roundRobinIndex)
    /\ lastOp' = [op |-> "subscribeToAccount", responseStatus |-> Undef]
    /\ UNCHANGED <<ledgerVars, idleVars, observers, cacheVars, streamVars>>

\* init(), then subscribeToUpdates(): with a cached record its snapshot becomes
\* latestSnapshot; without one waitForAccountData picks a URL and the record the
\* server answers with is cached as it is, and latestSnapshot stays unset
InitAccountSubscription(initialAccountData) ==
    /\ accountSub.status = "created"
    /\ initialAccountData.account_id = accountSub.accountID
    /\ LET lastKnownAccountData == MapGet(accountDataCache, accountSub.cacheKey, Null)
       IN IF lastKnownAccountData # Null
          THEN /\ accountSub' = [accountSub EXCEPT
                                    !.status = "live",
                                    !.latestSnapshot = createSnapshot(lastKnownAccountData)]
               /\ UNCHANGED <<accountDataCache, roundRobinIndex>>
          ELSE /\ accountSub' = [accountSub EXCEPT !.status = "live"]
               /\ accountDataCache' = MapSet(accountDataCache, accountSub.cacheKey,
                                             initialAccountData)
               /\ roundRobinIndex' = NextRoundRobinIndex(roundRobinIndex)
    /\ lastOp' = [op |-> "init", responseStatus |-> Undef]
    /\ UNCHANGED <<ledgerVars, foldVars, otherVars, observers, cacheVars, streamVars>>

\* One round of the coordinator: fetchUpdate() asks a server of the endpoint set
\* whatever value the stream handed over, shouldApplyUpdate decides, applyUpdate
\* commits. `streamed` tells whether the round was started by a value of the
\* optimistic update stream or by an effect or the delayed first fetch; the
\* closure keeps the number of streamed values not yet handled.
FetchAndApplyAccountUpdate(streamed, status, accountData) ==
    /\ accountSub.status = "live"
    /\ accountData.account_id = accountSub.accountID
    /\ streamed => accountSub.streamed > 0
    /\ LET frontierURL == getRandomURL(accountSub.frontierURLs, roundRobinIndex)
           update == FetchAccountDataResult(accountDataUpdates, frontierURL, status, accountData)
           apply == accountShouldApplyUpdate(accountSub.latestSnapshot, update)
       IN /\ accountSub' = [accountSub EXCEPT
                               !.streamed = IF streamed THEN @ - 1 ELSE @,
                               !.fetched = update,
                               !.applied = apply,
                               !.latestSnapshot = IF apply THEN createSnapshot(update) ELSE @]
          /\ accountDataCache' = IF apply
                                 THEN MapSet(accountDataCache, accountSub.cacheKey, update)
                                 ELSE accountDataCache
    /\ roundRobinIndex' = NextRoundRobinIndex(roundRobinIndex)
    /\ lastOp' = [op |-> "fetchAndApplyUpdate", responseStatus |-> status]
    /\ UNCHANGED <<ledgerVars, foldVars, otherVars, observers, cacheVars, streamVars>>

\* the last observer unsubscribes: the subscription is torn down
UnsubscribeAccount ==
    /\ accountSub.status # "none"
    /\ accountSub' = [status |-> "none", calls |-> accountSub.calls]
    /\ lastOp' = [op |-> "unsubscribe", responseStatus |-> Undef]
    /\ UNCHANGED <<ledgerVars, idleVars, observers, roundRobinIndex, cacheVars, streamVars>>

(***************************************************************************)
(* One orderbook subscription: the closure of subscribeToOrderbookUncached *)
(* for two different assets, run by the same coordinator.                  *)
(***************************************************************************)
\* price levels of an order book side
OrderbookSides == {<<>>, <<[price |-> 1, amount |-> 10]>>}
\* What GET /order_book answers, as parsed: the bids, the asks and the order in
\* which the response lists the two keys.
OrderbookRecords ==
    [bids : OrderbookSides, asks : OrderbookSides, firstKey : {"bids", "asks"}]

\* JSON.stringify(update): the keys and values in the order of the parsed
\* object; the empty string is the empty sequence
JSONStringify(record) ==
    IF record.firstKey = "bids"
    THEN <<"bids", record.bids, "asks", record.asks>>
    ELSE <<"asks", record.asks, "bids", record.bids>>
EmptyString == <<>>

\* shouldApplyUpdate of the orderbook subscription
orderbookShouldApplyUpdate(latestKnownSnapshot, update) ==
    LET snapshot == JSONStringify(update)
    IN snapshot # latestKnownSnapshot

\* subscribeToOrderbookUncached(frontierURLs, sellingAsset, buyingAsset) up to the
\* call of subscribeToUpdatesAndPoll
SubscribeToOrderbookUncached(frontierURLs) ==
    /\ orderbookSub.status = "none"
    /\ orderbookSub' = [status |-> "created", frontierURLs |-> frontierURLs,
                        latestKnownSnapshot |-> EmptyString, fetched |-> Null, applied |-> FALSE]
    /\ roundRobinIndex' = NextRoundRobinIndex(roundRobinIndex)
    /\ lastOp' = [op |-> "subscribeToOrderbook", responseStatus |-> Undef]
    /\ UNCHANGED <<workerVars, effectsSub, sender, provider, auxVars>>

\* init(): the record fetchUpdate() resolves with becomes the snapshot
InitOrderbookSubscription(record) ==
    /\ orderbookSub.status = "created"
    /\ orderbookSub' = [orderbookSub EXCEPT !.status = "live",
                                            !.latestKnownSnapshot = JSONStringify(record)]
    /\ roundRobinIndex' = NextRoundRobinIndex(roundRobinIndex)
    /\ lastOp' = [op |-> "initOrderbook", responseStatus |-> Undef]
    /\ UNCHANGED <<workerVars, effectsSub, sender, provider, auxVars>>

\* one round of the coordinator: fetchUpdate() fetches the record whatever the
\* stream pushed, shouldApplyUpdate decides, applyUpdate commits
FetchAndApplyOrderbookUpdate(record) ==
    /\ orderbookSub.status = "live"
    /\ LET apply == orderbookShouldApplyUpdate(orderbookSub.latestKnownSnapshot, record)
       IN orderbookSub' = [orderbookSub EXCEPT
                              !.fetched = record,
                              !.applied = apply,
                              !.latestKnownSnapshot = IF apply THEN JSONStringify(record) ELSE @]
    /\ roundRobinIndex' = NextRoundRobinIndex(roundRobinIndex)
    /\ lastOp' = [op |-> "fetchAndApplyOrderbookUpdate", responseStatus |-> Undef]
    /\ UNCHANGED <<workerVars, effectsSub, sender, provider, auxVars>>

UnsubscribeOrderbook ==
    /\ orderbookSub.status # "none"
    /\ orderbookSub' = [status |-> "none"]
    /\ lastOp' = [op |-> "unsubscribeOrderbook", responseStatus |-> Undef]
    /\ UNCHANGED <<workerVars, effectsSub, sender, provider, auxVars, roundRobinIndex>>

(***************************************************************************)
(* One account-effects subscription: the closure of                        *)
(* subscribeToAccountEffectsUncached, run by the same coordinator.         *)
(***************************************************************************)
\* Effect records of the account: paging tokens in the order of the ledger,
\* created_at the close time of the ledger they belong to (ISO timestamps compare
\* as the times do). Two effects of one ledger share created_at.
PagingTokens == 1..5
Effects == {[paging_token |-> token, created_at |-> (token + 1) \div 2] : token \in PagingTokens}

\* shouldApplyUpdate of the effects subscription
effectsShouldApplyUpdate(latestCursor, latestEffectCreatedAt, update) ==
    \/ latestEffectCreatedAt = Undef
    \/ (update.created_at >= latestEffectCreatedAt /\ update.paging_token # latestCursor)

\* subscribeToAccountEffectsUncached(frontierURLs, accountID) up to the call of
\* subscribeToUpdatesAndPoll
SubscribeToAccountEffectsUncached(frontierURLs) ==
    /\ effectsSub.status = "none"
    /\ effectsSub' = [status |-> "created", latestCursor |-> Undef,
                      latestEffectCreatedAt |-> Undef, applied |-> <<>>]
    /\ roundRobinIndex' = NextRoundRobinIndex(roundRobinIndex)
    /\ lastOp' = [op |-> "subscribeToAccountEffects", responseStatus |-> Undef]
    /\ UNCHANGED <<workerVars, orderbookSub, sender, provider, auxVars>>

\* init(): the latest effect of the account, if it has one, sets the cursor and
\* the time; it is returned without applyUpdate
InitEffectsSubscription(hasEffect, effect) ==
    /\ effectsSub.status = "created"
    /\ effectsSub' = [effectsSub EXCEPT
                          !.status = "live",
                          !.latestCursor = IF hasEffect THEN effect.paging_token ELSE @,
                          !.latestEffectCreatedAt = IF hasEffect THEN effect.created_at ELSE @]
    /\ lastOp' = [op |-> "initEffects", responseStatus |-> Undef]
    /\ UNCHANGED <<workerVars, orderbookSub, sender, provider, auxVars, roundRobinIndex>>

\* One round of the coordinator for an effect the stream delivered:
\* fetchUpdate(streamedUpdate) returns it, shouldApplyUpdate decides, applyUpdate
\* sets the cursor and the time and the effect is emitted.
StreamDeliversEffect(effect) ==
    /\ effectsSub.status = "live"
    /\ Len(effectsSub.applied) < MaxAppliedEffects
    /\ effectsSub' =
          IF effectsShouldApplyUpdate(effectsSub.latestCursor, effectsSub.latestEffectCreatedAt,
                                      effect)
          THEN [effectsSub EXCEPT !.latestCursor = effect.paging_token,
                                  !.latestEffectCreatedAt = effect.created_at,
                                  !.applied = Append(@, effect)]
          ELSE effectsSub
    /\ lastOp' = [op |-> "effect", responseStatus |-> effect.paging_token]
    /\ UNCHANGED <<workerVars, orderbookSub, sender, provider, auxVars, roundRobinIndex>>

(***************************************************************************)
(* One TransactionSender component. A handler that awaits is one action    *)
(* per stretch that runs without interruption. The review dialog and the   *)
(* submission progress view decide when the handlers are called: submit    *)
(* while the dialog shows a transaction and no submission progress, retry  *)
(* while the shown submission promise is rejected.                         *)
(***************************************************************************)
\* the state of the net worker, which the component does not touch
netVars == <<workerVars, orderbookSub, effectsSub, provider, auxVars, roundRobinIndex>>

SenderOp(op) == [op |-> op, responseStatus |-> Undef]

\* a submitSignedTransaction call that has just started
NewCall(transaction, retry) ==
    [tx |-> transaction, retry |-> retry, stage |-> "checking", service |-> FALSE,
     channel |-> "undecided", promise |-> 0]

\* the callbacks are called: a promise that is still pending settles
settleSendPromises(sendPromises, callbacks, outcome) ==
    [transaction \in DOMAIN sendPromises |->
        IF sendPromises[transaction] = "pending"
           /\ \E i \in 1..Len(callbacks) : callbacks[i] = transaction
        THEN outcome
        ELSE sendPromises[transaction]]

\* triggerSubmissionSuccessCallbacks
triggerSubmissionSuccessCallbacks(state) ==
    [state EXCEPT !.submissionSuccessCallbacks = <<>>,
                  !.sendPromises = settleSendPromises(@, state.submissionSuccessCallbacks,
                                                      "resolved")]

\* triggerSubmissionClosedCallbacks
triggerSubmissionClosedCallbacks(state) ==
    [state EXCEPT !.submissionClosedCallbacks = <<>>,
                  !.sendPromises = settleSendPromises(@, state.submissionClosedCallbacks,
                                                      "rejected")]

\* setTransaction(transaction): the app hands over a transaction to review
SetTransaction(transaction) ==
    /\ sender.transactions < MaxSenderTransactions
    /\ transaction = sender.transactions + 1
    /\ ~sender.confirmationDialogOpen
    /\ sender' = [sender EXCEPT !.confirmationDialogOpen = TRUE,
                                !.unsignedTransaction = transaction,
                                !.transactions = transaction,
                                !.submissionSuccessCallbacks = Append(@, transaction),
                                !.submissionClosedCallbacks = Append(@, transaction),
                                !.sendPromises[transaction] = "pending"]
    /\ lastOp' = SenderOp("setTransaction")
    /\ UNCHANGED netVars

\* a submitSignedTransaction call has not returned yet: the dialog accepts no
\* second confirmation meanwhile
CallInFlight(state) ==
    \E call \in 1..Len(state.calls) : state.calls[call].stage # "done"

\* the catch block of submitTransaction with a failure of that kind reported
\* to onSubmissionFailure as well
submitTransactionCatch_ReportsFailure(state, isWrongPassword) ==
    IF isWrongPassword
    THEN [state EXCEPT !.passwordError = TRUE,
                       !.failures = Append(@, state.unsignedTransaction)]
    ELSE [state EXCEPT !.thrown = @ + 1]

\* the catch block of submitTransaction
submitTransactionCatch(state, isWrongPassword) ==
    IF isWrongPassword
    THEN [state EXCEPT !.passwordError = TRUE]
    ELSE [state EXCEPT !.thrown = @ + 1]

\* submitTransaction(transaction, formValues) up to the first await inside
\* submitSignedTransaction; outcome is what signTransaction does
SenderSubmitTransaction(outcome) ==
    /\ sender.confirmationDialogOpen
    /\ sender.unsignedTransaction # 0
    /\ sender.submissionPromise = 0
    /\ ~CallInFlight(sender)
    /\ sender.signed < MaxSenderSubmissions
    /\ outcome = "signed" => Len(sender.calls) < MaxSenderSubmissions
    /\ LET signing == [sender EXCEPT !.signed = @ + 1]
       IN sender' =
            IF outcome = "signed"
            THEN [signing EXCEPT
                    !.passwordError = FALSE,
                    !.signedTransaction = sender.unsignedTransaction,
                    !.calls = Append(@, NewCall(sender.unsignedTransaction, FALSE))]
            ELSE submitTransactionCatch(signing, outcome = "wrongPassword")
    /\ lastOp' = SenderOp(outcome)
    /\ UNCHANGED netVars

\* setSubmissionPromise(promise) for a promise just created
setSubmissionPromise(state, call, channel) ==
    [state EXCEPT
        !.promises = Append(@, [tx |-> state.calls[call].tx, channel |-> channel,
                                state |-> "pending"]),
        !.submissionPromise = Len(state.promises) + 1,
        !.submissionStatus = "pending",
        !.submissionType = IF channel = "thirdParty" THEN "thirdParty" ELSE "default",
        !.calls[call].stage = "awaiting",
        !.calls[call].channel = channel,
        !.calls[call].promise = Len(state.promises) + 1]

\* the end of the try block of submitSignedTransaction: the two setTimeout calls
scheduleCompletion(state, call) ==
    [state EXCEPT
        !.timers = @ \cup {[kind |-> "clear", call |-> call], [kind |-> "completed", call |-> call]},
        !.calls[call].stage = "done"]

\* submitSignedTransaction after isThirdPartyProtected and requiresRemoteSignatures
\* have answered: the branch taken, up to the await of the submission promise
submitSignedTransactionBranch(state, call, service, remoteSignatures) ==
    LET checked == [state EXCEPT !.calls[call].service = service]
    IN IF service
       THEN setSubmissionPromise(checked, call, "thirdParty")
       ELSE IF remoteSignatures
       THEN scheduleCompletion([checked EXCEPT !.calls[call].channel = "none"], call)
       ELSE setSubmissionPromise(checked, call, "frontier")

SubmitSignedTransaction(call, service, remoteSignatures) ==
    /\ call \in 1..Len(sender.calls)
    /\ sender.calls[call].stage = "checking"
    /\ sender' = submitSignedTransactionBranch(sender, call, service, remoteSignatures)
    /\ lastOp' = SenderOp("submitSignedTransaction")
    /\ UNCHANGED netVars

\* A submission promise settles: the then and catch callbacks of
\* setSubmissionPromise run, then submitSignedTransaction continues after its await
promiseSettled(state, promise, fulfilled) ==
    LET call == CHOOSE c \in 1..Len(state.calls) : state.calls[c].promise = promise
        settled == [state EXCEPT !.promises[promise].state =
                                    IF fulfilled THEN "fulfilled" ELSE "rejected"]
    IN IF fulfilled
       THEN scheduleCompletion(
                triggerSubmissionSuccessCallbacks(
                    [settled EXCEPT !.submissionStatus = "fulfilled",
                                    !.timers = @ \cup {[kind |-> "autoClose", call |-> call]}]),
                call)
       ELSE [settled EXCEPT !.submissionStatus = "rejected",
                            !.failures = Append(@, state.calls[call].tx),
                            !.calls[call].stage = "done"]

SubmissionSettles(promise, fulfilled) ==
    /\ promise \in 1..Len(sender.promises)
    /\ sender.promises[promise].state = "pending"
    /\ sender' = promiseSettled(sender, promise, fulfilled)
    /\ lastOp' = SenderOp(IF fulfilled THEN "fulfilled" ELSE "rejected")
    /\ UNCHANGED netVars

\* clearSubmissionPromise
clearSubmissionPromise(state) ==
    [state EXCEPT !.confirmationDialogOpen = FALSE, !.submissionPromise = 0]

\* Timers run in the order of their times: those with the same delay in the
\* order they were set, the auto-close (1200 ms) after the clear (1000 ms) of
\* the same call; completionCallbackDelay is any delay.
TimerDue(timer) ==
    /\ timer \in sender.timers
    /\ \A earlier \in sender.timers :
          ~(earlier.kind = timer.kind /\ earlier.call < timer.call)
    /\ timer.kind = "autoClose" => [kind |-> "clear", call |-> timer.call] \notin sender.timers

TimerFires(timer) ==
    /\ TimerDue(timer)
    /\ LET rest == [sender EXCEPT !.timers = @ \ {timer}]
       IN sender' =
            IF timer.kind = "clear" THEN clearSubmissionPromise(rest)
            ELSE IF timer.kind = "autoClose" THEN [rest EXCEPT !.confirmationDialogOpen = FALSE]
            ELSE [rest EXCEPT !.signedTransaction = 0,
                              !.completed = Append(@, sender.calls[timer.call].tx)]
    /\ lastOp' = SenderOp(timer.kind)
    /\ UNCHANGED netVars

\* onConfirmationDrawerCloseRequest: the user closes the dialog
OnConfirmationDrawerCloseRequest ==
    /\ sender.confirmationDialogOpen
    /\ sender' = triggerSubmissionClosedCallbacks(
                     IF sender.submissionPromise = 0 \/ sender.submissionStatus # "pending"
                     THEN clearSubmissionPromise(sender)
                     ELSE sender)
    /\ lastOp' = SenderOp("closeRequest")
    /\ UNCHANGED netVars

\* retrySubmission up to the first await inside submitSignedTransaction
RetrySubmission ==
    /\ sender.confirmationDialogOpen
    /\ sender.submissionPromise # 0
    /\ sender.promises[sender.submissionPromise].state = "rejected"
    /\ Len(sender.calls) < MaxSenderSubmissions
    /\ sender' = IF sender.signedTransaction # 0 /\ sender.unsignedTransaction # 0
                 THEN [sender EXCEPT !.calls = Append(@, NewCall(sender.signedTransaction, TRUE))]
                 ELSE sender
    /\ lastOp' = SenderOp("retrySubmission")
    /\ UNCHANGED netVars

SignOutcomes == {"signed", "wrongPassword", "otherError"}
TimerKinds == {"clear", "autoClose", "completed"}

NextSender ==
    \/ \E transaction \in 1..MaxSenderTransactions : SetTransaction(transaction)
    \/ \E outcome \in SignOutcomes : SenderSubmitTransaction(outcome)
    \/ \E call \in 1..MaxSenderSubmissions, service \in BOOLEAN, remoteSignatures \in BOOLEAN :
          SubmitSignedTransaction(call, service, remoteSignatures)
    \/ \E promise \in 1..MaxSenderSubmissions, fulfilled \in BOOLEAN :
          SubmissionSettles(promise, fulfilled)
    \/ \E kind \in TimerKinds, call \in 1..MaxSenderSubmissions :
          TimerFires([kind |-> kind, call |-> call])
    \/ OnConfirmationDrawerCloseRequest
    \/ RetrySubmission

SpecSender == Init /\ [][NextSender]_vars

(***************************************************************************)
(* DigitalBitsProvider: the effect that selects the frontier endpoints.    *)
(***************************************************************************)
providerKeeps == <<workerVars, orderbookSub, effectsSub, sender, auxVars, roundRobinIndex, lastOp>>

\* the provider mounts and its effect runs: init() is called unless the
\* browser is offline, and runs up to await initialFrontierSelection
MountProvider(onLine) ==
    /\ provider.status = "unmounted"
    /\ provider' = [provider EXCEPT !.status = IF onLine THEN "selecting" ELSE "idle"]
    /\ UNCHANGED providerKeeps

\* the state update of init(): a list of the context is replaced when the
\* resolved array is another array
selectedContextValue(prevState, resolved) ==
    [isSelectionPending |-> FALSE,
     pubnetFrontierURLs |->
        IF resolved.pubnetFrontierURLs.array # prevState.pubnetFrontierURLs.array
        THEN resolved.pubnetFrontierURLs ELSE prevState.pubnetFrontierURLs,
     testnetFrontierURLs |->
        IF resolved.testnetFrontierURLs.array # prevState.testnetFrontierURLs.array
        THEN resolved.testnetFrontierURLs ELSE prevState.testnetFrontierURLs]

\* the condition of init() for the resets
selectionChanged(resolved) ==
    \/ resolved.pubnetFrontierURLs.array # initialValues.pubnetFrontierURLs.array
    \/ resolved.testnetFrontierURLs.array # initialValues.testnetFrontierURLs.array

\* init() continues after await initialFrontierSelection, up to the await of
\* netWorker.resetAllSubscriptions()
SelectionResolves ==
    /\ provider.status = "selecting"
    /\ provider' =
          IF provider.cancelled THEN [provider EXCEPT !.status = "done"]
          ELSE IF selectionChanged(initialFrontierSelection)
          THEN [provider EXCEPT
                  !.contextValue = selectedContextValue(@, initialFrontierSelection),
                  !.resetCalls = @ + 1,
                  !.status = "callingReset"]
          ELSE [provider EXCEPT
                  !.contextValue = selectedContextValue(@, initialFrontierSelection),
                  !.status = "done"]
    /\ UNCHANGED providerKeeps

\* init() continues after the worker's reset has returned: resetNetworkCaches()
ResetNetworkCaches ==
    /\ provider.status = "resetReturned"
    /\ provider' = [provider EXCEPT !.cacheResets = @ + 1, !.status = "done"]
    /\ UNCHANGED providerKeeps

\* the cleanup of the effect
UnmountProvider ==
    /\ provider.status # "unmounted"
    /\ ~provider.cancelled
    /\ provider' = [provider EXCEPT !.cancelled = TRUE]
    /\ UNCHANGED providerKeeps

(***************************************************************************)
(* Observers of accountDataUpdates.observe() and offerUpdates.observe().   *)
(***************************************************************************)
LedgerNames == {"account", "offers"}

\* observe().subscribe(...): the subject sends the new observer what it emits
\* from now on
ObserveUpdates(ledger) ==
    /\ Len(observers) < MaxLedgerObservers
    /\ observers' = Append(observers, [ledger |-> ledger, subscribed |-> TRUE, log |-> <<>>])
    /\ UNCHANGED <<ledgerVars, idleVars, accountSub, roundRobinIndex, cacheVars, streamVars, lastOp>>

\* subscription.unsubscribe()
UnobserveUpdates(observer) ==
    /\ observers[observer].subscribed
    /\ observers' = [observers EXCEPT ![observer].subscribed = FALSE]
    /\ UNCHANGED <<ledgerVars, idleVars, accountSub, roundRobinIndex, cacheVars, streamVars, lastOp>>

(***************************************************************************)
(* checkFrontierOrFailover: the health check of a primary server with a    *)
(* secondary server to fall back to. What a server does with the request   *)
(* is an input: it answers with a status after some time, the request      *)
(* fails after some time, or nothing comes back.                           *)
(***************************************************************************)
\* delay(2500) of the race
HealthCheckTimeout == 2500
\* times in ms at which a server's answer or failure arrives
AnswerTimes == {100, 2499, 2501}
HealthStatuses == {200, 299, 300, 404, 500}

ServerOutcomes ==
    [kind : {"response"}, status : HealthStatuses, ms : AnswerTimes]
        \cup [kind : {"error"}, status : {0}, ms : AnswerTimes]
        \cup [kind : {"noAnswer"}, status : {0}, ms : {0}]

\* the promise of the call rejects, or never settles
Rejected == "rejected"
Pending == "pending"

\* response.status < 300 || response.status === 404
HealthyStatus(status) == status < 300 \/ status = 404

\* Promise.race of the fetch and delay(2500): the fetch wins when it settles first
RaceWonByFetch(outcome) == outcome.kind # "noAnswer" /\ outcome.ms < HealthCheckTimeout

\* the call with the secondary server returned in every case but a healthy primary
checkFrontierOrFailover_AlwaysSecondary(primaryFrontierURL, secondaryFrontierURL, primaryOutcome, secondaryOutcome) ==
    IF /\ RaceWonByFetch(primaryOutcome)
       /\ primaryOutcome.kind = "response"
       /\ HealthyStatus(primaryOutcome.status)
    THEN primaryFrontierURL
    ELSE IF secondaryOutcome.kind = "noAnswer" THEN Pending
    ELSE IF secondaryOutcome.kind = "error" THEN Rejected
    ELSE secondaryFrontierURL

\* what the call returns, given what the two servers do
checkFrontierOrFailover(primaryFrontierURL, secondaryFrontierURL, primaryOutcome, secondaryOutcome) ==
    IF /\ RaceWonByFetch(primaryOutcome)
       /\ primaryOutcome.kind = "response"
       /\ HealthyStatus(primaryOutcome.status)
    THEN primaryFrontierURL
    ELSE IF secondaryOutcome.kind = "noAnswer" THEN Pending
    ELSE IF secondaryOutcome.kind = "error" THEN Rejected
    ELSE IF HealthyStatus(secondaryOutcome.status) THEN secondaryFrontierURL
    ELSE primaryFrontierURL

CheckFrontierOrFailover(primaryFrontierURL, secondaryFrontierURL, primaryOutcome, secondaryOutcome) ==
    /\ primaryFrontierURL # secondaryFrontierURL
    /\ failover' = [status |-> "called",
                    primary |-> primaryFrontierURL, secondary |-> secondaryFrontierURL,
                    primaryOutcome |-> primaryOutcome, secondaryOutcome |-> secondaryOutcome,
                    result |-> checkFrontierOrFailover(primaryFrontierURL, secondaryFrontierURL,
                                                       primaryOutcome, secondaryOutcome)]
    /\ UNCHANGED <<workerVars, orderbookSub, effectsSub, sender, provider, fetchQueues, waiting,
                   effectsStream, libVars, roundRobinIndex, lastOp>>

NextFailover ==
    \E primaryFrontierURL \in URLs, secondaryFrontierURL \in URLs,
       primaryOutcome \in ServerOutcomes, secondaryOutcome \in ServerOutcomes :
        CheckFrontierOrFailover(primaryFrontierURL, secondaryFrontierURL, primaryOutcome,
                                secondaryOutcome)

SpecFailover == Init /\ [][NextFailover]_vars

(***************************************************************************)
(* useFrontierURLs: what a consumer of the context obtains.                *)
(***************************************************************************)
\* the hook either returns a list or throws the pending selection promise,
\* which suspends the component that called it
useFrontierURLs(digitalbits, testnet) ==
    IF digitalbits.isSelectionPending
    THEN [kind |-> "thrown", value |-> "pendingSelection"]
    ELSE [kind |-> "returned",
          value |-> IF testnet THEN digitalbits.testnetFrontierURLs
                    ELSE digitalbits.pubnetFrontierURLs]

(***************************************************************************)
(* The fetch queues: one PromiseQueue per URL, made by getFetchQueue. A    *)
(* queue starts a task as soon as fewer than `concurrency` tasks are       *)
(* pending and fewer than `intervalCap` tasks were started in the running  *)
(* interval, the task of highest priority first. Time is not counted: the  *)
(* end of an interval and the timeout of a task are steps of their own.    *)
(***************************************************************************)
\* concurrency and intervalCap of the queue options
QueueConcurrency == 4
QueueIntervalCap == 4
\* priorities the operations pass to add(): fetchAccountData 2, submitTransaction 20
RequestPriorities == {2, 20}

\* new PromiseQueue(...): id tells the objects apart; queue holds the priorities
\* of the waiting tasks, pendingCount the started tasks that have not settled,
\* intervalCount the tasks started in the running interval, timedOut the
\* requests of tasks that timed out and that the server has not answered yet
PromiseQueue(id) ==
    [id |-> id, queue |-> <<>>, pendingCount |-> 0, intervalCount |-> 0, timedOut |-> 0]

\* getFetchQueue that makes a new queue on every call
getFetchQueue_AlwaysNew(queues, frontierURL) ==
    MapSet(queues, frontierURL, PromiseQueue(Cardinality(DOMAIN queues) + 1))

\* getFetchQueue(frontierURL): the map after the call; the queue returned is
\* its entry under frontierURL
getFetchQueue(queues, frontierURL) ==
    IF frontierURL \in DOMAIN queues THEN queues
    ELSE MapSet(queues, frontierURL, PromiseQueue(Cardinality(DOMAIN queues) + 1))

\* enqueue of the priority queue: behind the waiting tasks of the same or a
\* higher priority
Enqueue(queue, priority) ==
    LET ahead == Cardinality({i \in 1..Len(queue) : queue[i] >= priority})
    IN SubSeq(queue, 1, ahead) \o <<priority>> \o SubSeq(queue, ahead + 1, Len(queue))

CanStart(fetchQueue) ==
    /\ fetchQueue.queue # <<>>
    /\ fetchQueue.pendingCount < QueueConcurrency
    /\ fetchQueue.intervalCount < QueueIntervalCap

\* the queue starts tasks while it can
RECURSIVE tryToStartAnother(_)
tryToStartAnother(fetchQueue) ==
    IF CanStart(fetchQueue)
    THEN tryToStartAnother([fetchQueue EXCEPT !.queue = Tail(@),
                                              !.pendingCount = @ + 1,
                                              !.intervalCount = @ + 1])
    ELSE fetchQueue

\* the requests of a queue that are waiting or open
RequestsOf(fetchQueue) == Len(fetchQueue.queue) + fetchQueue.pendingCount + fetchQueue.timedOut

RECURSIVE RequestsPresent(_)
RequestsPresent(queues) ==
    IF DOMAIN queues = {} THEN 0
    ELSE LET frontierURL == CHOOSE url \in DOMAIN queues : TRUE
         IN RequestsOf(queues[frontierURL])
                + RequestsPresent([url \in DOMAIN queues \ {frontierURL} |-> queues[url]])

gateKeeps == <<workerVars, orderbookSub, effectsSub, sender, provider, failover, waiting,
               effectsStream, libVars, roundRobinIndex, lastOp>>

\* an operation of the worker: getFetchQueue(frontierURL).add(() => fetch(url), {priority})
AddRequest(frontierURL, priority) ==
    /\ RequestsPresent(fetchQueues) < MaxRequests
    /\ LET queues == getFetchQueue(fetchQueues, frontierURL)
           added == [queues[frontierURL] EXCEPT !.queue = Enqueue(@, priority)]
       IN fetchQueues' = [queues EXCEPT ![frontierURL] = tryToStartAnother(added)]
    /\ UNCHANGED gateKeeps

\* the server answers the request of a pending task: the task resolves and the
\* queue frees its slot
RequestAnswered(frontierURL) ==
    /\ frontierURL \in DOMAIN fetchQueues
    /\ fetchQueues[frontierURL].pendingCount > 0
    /\ fetchQueues' =
          [fetchQueues EXCEPT ![frontierURL] = tryToStartAnother([@ EXCEPT !.pendingCount = @ - 1])]
    /\ UNCHANGED gateKeeps

\* a pending task has taken 10 s: its promise rejects with the timeout error
\* and the queue frees its slot; fetch was given no abort signal, so the
\* request stays open until the server answers. The task was started ten
\* intervals ago: the step is taken when no task was started in the running one
RequestTimesOut(frontierURL) ==
    /\ frontierURL \in DOMAIN fetchQueues
    /\ fetchQueues[frontierURL].pendingCount > 0
    /\ fetchQueues[frontierURL].intervalCount = 0
    /\ fetchQueues' =
          [fetchQueues EXCEPT ![frontierURL] =
              tryToStartAnother([@ EXCEPT !.pendingCount = @ - 1, !.timedOut = @ + 1])]
    /\ UNCHANGED gateKeeps

\* the server answers a request whose task has timed out: nobody is waiting
LateAnswer(frontierURL) ==
    /\ frontierURL \in DOMAIN fetchQueues
    /\ fetchQueues[frontierURL].timedOut > 0
    /\ fetchQueues' = [fetchQueues EXCEPT ![frontierURL].timedOut = @ - 1]
    /\ UNCHANGED gateKeeps

\* the interval of a queue ends: the count of started tasks begins anew
IntervalElapses(frontierURL) ==
    /\ frontierURL \in DOMAIN fetchQueues
    /\ fetchQueues[frontierURL].intervalCount > 0
    /\ fetchQueues' =
          [fetchQueues EXCEPT ![frontierURL] = tryToStartAnother([@ EXCEPT !.intervalCount = 0])]
    /\ UNCHANGED gateKeeps

NextGate ==
    \/ \E frontierURL \in URLs, priority \in RequestPriorities : AddRequest(frontierURL, priority)
    \/ \E frontierURL \in URLs :
          \/ RequestAnswered(frontierURL)
          \/ RequestTimesOut(frontierURL)
          \/ LateAnswer(frontierURL)
          \/ IntervalElapses(frontierURL)
    \/ ResetAllSubscriptions

SpecGate == Init /\ [][NextGate]_vars

(***************************************************************************)
(* waitForAccountData: callers wait for one account of one endpoint list.  *)
(* Each caller passes its own shouldCancel; cancelRequested holds the      *)
(* callers whose shouldCancel returns true from now on.                    *)
(***************************************************************************)
WaitCallers == 1..MaxWaitCallers
\* what the server answers to GET /accounts/:id, or the queue's timeout
WaitAnswers == {200, 404, 500}

waitKeeps == <<workerVars, orderbookSub, effectsSub, sender, provider, failover, fetchQueues,
               effectsStream, libVars>>

\* the head of the loop of waitForAccountDataUncached: shouldCancel of the
\* call that started the loop is asked, then the account is fetched
loopHead(wait) ==
    IF wait.starter \in wait.cancelRequested
    THEN [wait EXCEPT !.status = "rejected", !.error = "Cancellation", !.pending = FALSE,
                      !.polled = {wait.starter}, !.loops = @ - 1]
    ELSE [wait EXCEPT !.status = "fetching", !.polled = {wait.starter},
                      !.atFetch = {wait.starter} \cup wait.joined, !.fetches = @ + 1]

\* waitForAccountData(frontierURLs, accountID, shouldCancel) up to its first await
WaitForAccountData(frontierURLs, caller) ==
    /\ caller \notin waiting.called
    /\ roundRobinIndex' = NextRoundRobinIndex(roundRobinIndex)
    /\ waiting' =
          IF waiting.pending
          THEN [waiting EXCEPT !.joined = @ \cup {caller}, !.called = @ \cup {caller},
                               !.promiseOf[caller] = waiting.started]
          ELSE loopHead([waiting EXCEPT !.pending = TRUE, !.starter = caller, !.joined = {},
                                        !.called = @ \cup {caller}, !.fetches = 0,
                                        !.error = "none", !.atFetch = {},
                                        !.loops = @ + 1, !.started = @ + 1,
                                        !.promiseOf[caller] = waiting.started + 1])
    /\ lastOp' = [op |-> "waitForAccountData", responseStatus |-> Undef]
    /\ UNCHANGED waitKeeps

\* a caller's shouldCancel returns true from now on
CallerCancels(caller) ==
    /\ caller \in waiting.called
    /\ caller \notin waiting.cancelRequested
    /\ waiting.pending
    /\ waiting' = [waiting EXCEPT !.cancelRequested = @ \cup {caller}]
    /\ lastOp' = [op |-> "cancel", responseStatus |-> Undef]
    /\ UNCHANGED <<waitKeeps, roundRobinIndex>>

\* the loop body after a response that throws on every status but 200
afterResponse_FailsOn404(wait, status) ==
    IF status = 200
    THEN [wait EXCEPT !.status = "resolved", !.pending = FALSE, !.loops = @ - 1]
    ELSE [wait EXCEPT !.status = "rejected", !.error = "RequestFailedError", !.pending = FALSE,
                      !.loops = @ - 1]

\* the loop body after the response, with the entry of the cache left in
\* place when the wait fails
afterResponse_KeepsEntryOnFailure(wait, status) ==
    IF status = 200
    THEN [wait EXCEPT !.status = "resolved", !.pending = FALSE, !.loops = @ - 1]
    ELSE IF status = 404
    THEN [wait EXCEPT !.status = "delaying"]
    ELSE [wait EXCEPT !.status = "rejected", !.error = "RequestFailedError", !.loops = @ - 1]

\* the loop body after the response; when the promise settles, the callbacks
\* waitForAccountData attached to it delete the entry of the cache
afterResponse(wait, status) ==
    IF status = 200
    THEN [wait EXCEPT !.status = "resolved", !.pending = FALSE, !.loops = @ - 1]
    ELSE IF status = 404
    THEN [wait EXCEPT !.status = "delaying"]
    ELSE [wait EXCEPT !.status = "rejected", !.error = "RequestFailedError", !.pending = FALSE,
                      !.loops = @ - 1]

FetchAnswered(status) ==
    /\ waiting.status = "fetching"
    /\ waiting' = afterResponse(waiting, status)
    /\ lastOp' = [op |-> "waitAnswered", responseStatus |-> status]
    /\ UNCHANGED <<waitKeeps, roundRobinIndex>>

\* the request takes longer than the queue allows: add() rejects
FetchTimesOut ==
    /\ waiting.status = "fetching"
    /\ waiting' = [waiting EXCEPT !.status = "rejected", !.error = "TimeoutError", !.pending = FALSE,
                                  !.loops = @ - 1]
    /\ lastOp' = [op |-> "waitTimedOut", responseStatus |-> Undef]
    /\ UNCHANGED <<waitKeeps, roundRobinIndex>>

\* delay(interval) is over: the next round of the loop
DelayElapses ==
    /\ waiting.status = "delaying"
    /\ waiting.fetches < MaxWaitFetches
    /\ waiting' = loopHead(waiting)
    /\ lastOp' = [op |-> "waitDelayed", responseStatus |-> Undef]
    /\ UNCHANGED <<waitKeeps, roundRobinIndex>>

NextWait ==
    \/ \E frontierURLs \in SubscriptionEndpointSets, caller \in WaitCallers :
          WaitForAccountData(frontierURLs, caller)
    \/ \E caller \in WaitCallers : CallerCancels(caller)
    \/ \E status \in WaitAnswers : FetchAnswered(status)
    \/ FetchTimesOut
    \/ DelayElapses

SpecWait == Init /\ [][NextWait]_vars

(***************************************************************************)
(* The event stream of one account-effects subscription: the callbacks     *)
(* subscribeToUpdates hands to createReconnectingSSE and the observer they *)
(* feed.                                                                   *)
(***************************************************************************)
StreamAccount == "A"
StreamURL == "u1"
EffectTypes == {"account_credited", "account_removed"}
\* JSON.parse(message.data) of the messages the server may send
EffectMessages == {[type |-> type, account |-> account] : type \in EffectTypes, account \in {"A", "B"}}

\* observer.next(effect): a closed observer forwards nothing
observerNext(stream, effect) ==
    IF stream.status = "open" THEN [stream EXCEPT !.forwarded = Append(@, effect)] ELSE stream

\* observer.complete()
observerComplete(stream) ==
    IF stream.status = "open" THEN [stream EXCEPT !.status = "completed"] ELSE stream

\* observer.error(error)
observerError(stream) ==
    IF stream.status = "open" THEN [stream EXCEPT !.status = "errored"] ELSE stream

\* onMessage that completes the stream on the removal of any account
onMessage_CompletesOnAnyRemoval(stream, accountID, effect) ==
    LET forwarded == observerNext([stream EXCEPT !.received = Append(@, effect)], effect)
    IN IF effect.type = "account_removed" THEN observerComplete(forwarded) ELSE forwarded

\* onMessage(message) of the effects stream of accountID
onMessage(stream, accountID, effect) ==
    LET forwarded == observerNext([stream EXCEPT !.received = Append(@, effect)], effect)
    IN IF effect.type = "account_removed" /\ effect.account = accountID
       THEN observerComplete(forwarded)
       ELSE forwarded

streamKeeps == <<workerVars, orderbookSub, effectsSub, sender, provider, failover, waiting,
                 libVars, roundRobinIndex>>

\* the coordinator subscribes to subscribeToUpdates(): the creation of the event
\* source is a task of the fetch queue, which starts and returns at once
SubscribeToUpdates ==
    /\ effectsStream.status = "none"
    /\ LET queues == getFetchQueue(fetchQueues, StreamURL)
           started == tryToStartAnother([queues[StreamURL] EXCEPT !.queue = Enqueue(@, 0)])
       IN fetchQueues' = [queues EXCEPT ![StreamURL] = [started EXCEPT !.pendingCount = @ - 1]]
    /\ effectsStream' = [effectsStream EXCEPT !.status = "open"]
    /\ lastOp' = [op |-> "subscribeToUpdates", responseStatus |-> Undef]
    /\ UNCHANGED streamKeeps

\* the event source hands a message to onMessage
OnMessage(effect) ==
    /\ effectsStream.status # "none"
    /\ Len(effectsStream.received) < MaxStreamMessages
    /\ effectsStream' = onMessage(effectsStream, StreamAccount, effect)
    /\ lastOp' = [op |-> "onMessage", responseStatus |-> Undef]
    /\ UNCHANGED <<streamKeeps, fetchQueues>>

\* the event source reports an error it does not recover from
OnUnexpectedError ==
    /\ effectsStream.status # "none"
    /\ effectsStream' = observerError(effectsStream)
    /\ lastOp' = [op |-> "onUnexpectedError", responseStatus |-> Undef]
    /\ UNCHANGED <<streamKeeps, fetchQueues>>

NextEffectsStream ==
    \/ SubscribeToUpdates
    \/ \E effect \in EffectMessages : OnMessage(effect)
    \/ OnUnexpectedError

SpecEffectsStream == Init /\ [][NextEffectsStream]_vars

(***************************************************************************)
(* One open-orders subscription: the closure of                            *)
(* subscribeToOpenOrdersUncached, run by the same coordinator.             *)
(***************************************************************************)
OfferIDs == 1..MaxOfferID
OfferAmounts == {10, 20}
\* an offer record; the server uses the id of an offer as its paging token
Offer(id, amount) == [id |-> id, paging_token |-> id, amount |-> amount]

\* the offers of `amounts` (0: the account has no such offer) with ids up to id,
\* in the order the server lists them for order=desc
RECURSIVE OffersFrom(_, _)
OffersFrom(amounts, id) ==
    IF id = 0 THEN <<>>
    ELSE (IF amounts[id] # 0 THEN <<Offer(id, amounts[id])>> ELSE <<>>) \o OffersFrom(amounts, id - 1)

\* what GET /accounts/{id}/offers?order=desc may answer
OfferSets == {OffersFrom(amounts, MaxOfferID) : amounts \in [OfferIDs -> OfferAmounts \cup {0}]}

\* max(strings, fallback): the greatest of the strings, the fallback if there is none
RECURSIVE max(_, _)
max(strings, fallback) ==
    IF strings = <<>> THEN fallback
    ELSE LET rest == max(Tail(strings), fallback)
         IN IF Head(strings) > rest THEN Head(strings) ELSE rest

\* shouldApplyUpdate of the open-orders subscription
ordersShouldApplyUpdate(latestCursor, latestSet, update) ==
    LET latestUpdateCursor == max([i \in 1..Len(update) |-> update[i].paging_token], 0)
        emptySet == Len(update) = 0
        latestSetEmpty == Len(latestSet) = 0
    IN emptySet # latestSetEmpty \/ (~emptySet /\ latestUpdateCursor # latestCursor)

\* latestCursor after applyUpdate(update)
ordersCursorAfter(latestCursor, update) ==
    IF Len(update) > 0
    THEN LET latestID == max([i \in 1..Len(update) |-> update[i].id], 0)
             found == CHOOSE i \in 1..Len(update) :
                         /\ update[i].id = latestID
                         /\ \A j \in 1..(i - 1) : update[j].id # latestID
         IN update[found].paging_token
    ELSE latestCursor

ordersKeeps == <<workerVars, orderbookSub, effectsSub, sender, provider, failover, fetchQueues,
                 waiting, effectsStream, transactionsSub, streamConnection, deduplicator,
                 federation>>

\* subscribeToOpenOrdersUncached(frontierURLs, accountID) up to the call of
\* subscribeToUpdatesAndPoll
SubscribeToOpenOrdersUncached(frontierURLs) ==
    /\ ordersSub.status = "none"
    /\ ordersSub' = [ordersSub EXCEPT !.status = "created"]
    /\ roundRobinIndex' = NextRoundRobinIndex(roundRobinIndex)
    /\ lastOp' = [op |-> "subscribeToOpenOrders", responseStatus |-> Undef]
    /\ UNCHANGED ordersKeeps

\* the ids of a fetched set: a new offer has an id above every id the server
\* has given out
FollowsServer(records) ==
    \A i \in 1..Len(records) :
        \/ records[i].id > ordersSub.highest
        \/ \E j \in 1..Len(ordersSub.fetched) : ordersSub.fetched[j].id = records[i].id

\* init(): the records fetchUpdate() resolves with become the latest set
InitOrdersSubscription(records) ==
    /\ ordersSub.status = "created"
    /\ ordersSub' = [ordersSub EXCEPT
                        !.status = "live",
                        !.latestCursor = IF Len(records) > 0 THEN records[1].paging_token ELSE @,
                        !.latestSet = records,
                        !.fetched = records,
                        !.highest = max([i \in 1..Len(records) |-> records[i].id], 0)]
    /\ roundRobinIndex' = NextRoundRobinIndex(roundRobinIndex)
    /\ lastOp' = [op |-> "initOpenOrders", responseStatus |-> Undef]
    /\ UNCHANGED ordersKeeps

\* one round of the coordinator: fetchUpdate() fetches all open orders,
\* shouldApplyUpdate decides, applyUpdate commits
FetchAndApplyOpenOrders(records) ==
    /\ ordersSub.status = "live"
    /\ FollowsServer(records)
    /\ LET apply == ordersShouldApplyUpdate(ordersSub.latestCursor, ordersSub.latestSet, records)
       IN ordersSub' = [ordersSub EXCEPT
                           !.fetched = records,
                           !.highest = max([i \in 1..Len(records) |-> records[i].id], @),
                           !.applied = apply,
                           !.latestCursor = IF apply THEN ordersCursorAfter(@, records) ELSE @,
                           !.latestSet = IF apply THEN records ELSE @]
    /\ roundRobinIndex' = NextRoundRobinIndex(roundRobinIndex)
    /\ lastOp' = [op |-> "fetchAndApplyOpenOrders", responseStatus |-> Undef]
    /\ UNCHANGED ordersKeeps

NextOrders ==
    \/ \E frontierURLs \in SubscriptionEndpointSets : SubscribeToOpenOrdersUncached(frontierURLs)
    \/ \E records \in OfferSets :
          \/ InitOrdersSubscription(records)
          \/ FetchAndApplyOpenOrders(records)

SpecOrders == Init /\ [][NextOrders]_vars

(***************************************************************************)
(* One account-transactions subscription: the closure of                   *)
(* subscribeToAccountTransactionsUncached. The transactions of the account *)
(* have the paging tokens 1, 2, ... in the order of the ledger. flatMap    *)
(* runs the generator of one effect after that of the effect before it.    *)
(***************************************************************************)
\* what GET /accounts/{id}/transactions answers on a ledger with the tokens
\* 1..ledger: the records after the cursor, oldest first, or, without a
\* cursor, all of them, newest first
TransactionsPage(ledger, cursor, order) ==
    IF order = "asc"
    THEN [i \in 1..(IF ledger > cursor THEN ledger - cursor ELSE 0) |-> cursor + i]
    ELSE [i \in 1..ledger |-> ledger + 1 - i]

Reverse(seq) == [i \in 1..Len(seq) |-> seq[Len(seq) + 1 - i]]

\* fetchLatestTxs(): the page and its order, by the cursor at the time of the call
fetchLatestTxs(latestCursor, ledger) ==
    IF latestCursor # Undef
    THEN [page |-> TransactionsPage(ledger, latestCursor, "asc"), order |-> "asc"]
    ELSE [page |-> TransactionsPage(ledger, 0, "desc"), order |-> "desc"]

\* newTxs of one pass of the loop
newTxs(fetched) == IF fetched.order = "asc" THEN fetched.page ELSE Reverse(fetched.page)

transactionsKeeps == <<workerVars, orderbookSub, effectsSub, sender, provider, failover,
                       fetchQueues, waiting, effectsStream, ordersSub, streamConnection,
                       deduplicator, federation>>

TransactionsOp(op) == [op |-> op, responseStatus |-> Undef]

\* subscribeToAccountTransactionsUncached(frontierURLs, accountID): fetchInitial()
\* sends its request, the stream is returned
SubscribeToAccountTransactionsUncached(frontierURLs, ledger) ==
    /\ transactionsSub.status = "none"
    /\ transactionsSub' = [transactionsSub EXCEPT !.status = "live", !.ledger = ledger,
                                                  !.initial = "requested"]
    /\ roundRobinIndex' = NextRoundRobinIndex(roundRobinIndex)
    /\ lastOp' = TransactionsOp("subscribeToAccountTransactions")
    /\ UNCHANGED transactionsKeeps

\* the network accepts a transaction of the account; the effects stream
\* delivers its effect, which waits for its turn in flatMap
TransactionAccepted ==
    /\ transactionsSub.status = "live"
    /\ transactionsSub.ledger < MaxLedgerTransactions
    /\ transactionsSub' = [transactionsSub EXCEPT !.ledger = @ + 1, !.effects = @ + 1]
    /\ lastOp' = TransactionsOp("transactionAccepted")
    /\ UNCHANGED <<transactionsKeeps, roundRobinIndex>>

\* the server answers the request of fetchInitial() with its latest transaction
InitialAnswered ==
    /\ transactionsSub.initial = "requested"
    /\ transactionsSub' = [transactionsSub EXCEPT !.initial = "answered",
                                                  !.initialSeen = transactionsSub.ledger]
    /\ lastOp' = TransactionsOp("initialAnswered")
    /\ UNCHANGED <<transactionsKeeps, roundRobinIndex>>

\* the response reaches fetchInitial(): latestCursor is set if there is a record
InitialResolves ==
    /\ transactionsSub.initial = "answered"
    /\ transactionsSub' =
          [transactionsSub EXCEPT
              !.initial = "done",
              !.latestCursor = IF transactionsSub.initialSeen > 0
                               THEN transactionsSub.initialSeen ELSE @,
              !.initialLate = Len(transactionsSub.emitted) > 0 \/ transactionsSub.stage = "fetching"]
    /\ lastOp' = TransactionsOp("initialResolves")
    /\ UNCHANGED <<transactionsKeeps, roundRobinIndex>>

\* a pass of the loop calls fetchLatestTxs(): for the first pass the generator
\* of the next effect is started
GeneratorFetches ==
    /\ transactionsSub.stage = "idle"
    /\ transactionsSub.iteration > 0 \/ transactionsSub.effects > 0
    /\ transactionsSub' =
          [transactionsSub EXCEPT
              !.effects = IF transactionsSub.iteration = 0 THEN @ - 1 ELSE @,
              !.iteration = @ + 1,
              !.stage = "fetching",
              !.page = newTxs(fetchLatestTxs(transactionsSub.latestCursor, transactionsSub.ledger))]
    /\ roundRobinIndex' = NextRoundRobinIndex(roundRobinIndex)
    /\ lastOp' = TransactionsOp("fetchLatestTxs")
    /\ UNCHANGED transactionsKeeps

\* the page arrives: yield* newTxs, then the cursor moves to the last of them
GeneratorYields ==
    /\ transactionsSub.stage = "fetching"
    /\ transactionsSub' =
          [transactionsSub EXCEPT
              !.stage = "delaying",
              !.emitted = @ \o transactionsSub.page,
              !.latestCursor = IF Len(transactionsSub.page) > 0
                               THEN transactionsSub.page[Len(transactionsSub.page)] ELSE @,
              !.page = <<>>]
    /\ lastOp' = TransactionsOp("yield")
    /\ UNCHANGED <<transactionsKeeps, roundRobinIndex>>

\* delay(350) is over: the next pass, or after the third the generator ends
GeneratorDelayElapses ==
    /\ transactionsSub.stage = "delaying"
    /\ transactionsSub' = [transactionsSub EXCEPT !.stage = "idle",
                                                  !.iteration = IF @ = 3 THEN 0 ELSE @]
    /\ lastOp' = TransactionsOp("delayElapsed")
    /\ UNCHANGED <<transactionsKeeps, roundRobinIndex>>

NextTransactions ==
    \/ \E frontierURLs \in SubscriptionEndpointSets, ledger \in 0..1 :
          SubscribeToAccountTransactionsUncached(frontierURLs, ledger)
    \/ TransactionAccepted
    \/ InitialAnswered
    \/ InitialResolves
    \/ GeneratorFetches
    \/ GeneratorYields
    \/ GeneratorDelayElapses

SpecTransactions == Init /\ [][NextTransactions]_vars

(***************************************************************************)
(* One call of manageStreamConnection(connectStream): the connections it   *)
(* has opened, in the order of the connectStream() calls, each TRUE while  *)
(* its unsubscribe function has not been called; the message listener of   *)
(* the script context; the messages the script context has received.       *)
(***************************************************************************)
libKeeps == <<workerVars, roundRobinIndex, orderbookSub, effectsSub, sender, provider, failover,
              fetchQueues, waiting, effectsStream, ordersSub, transactionsSub>>

\* event.data of the messages posted to the script context
AppMessages == {"app:pause", "app:resume", "app:other"}

StreamOp(op) == [op |-> op, responseStatus |-> Undef]

\* connectStream(): a new open connection, whose unsubscribe function is kept
connectStream(state) ==
    [state EXCEPT !.connections = Append(@, TRUE),
                  !.unsubscribeFromCurrent = Len(state.connections) + 1]

\* unsubscribeFromCurrent(): the connection the kept function belongs to is closed
unsubscribeFromCurrent(state) ==
    [state EXCEPT !.connections[state.unsubscribeFromCurrent] = FALSE]

\* messageHandler(event)
messageHandler(state, data) ==
    IF data = "app:pause" THEN unsubscribeFromCurrent(state)
    ELSE IF data = "app:resume" THEN connectStream(state)
    ELSE state

\* manageStreamConnection(connectStream) up to its return
ManageStreamConnection ==
    /\ streamConnection.status = "none"
    /\ streamConnection' = [connectStream(streamConnection) EXCEPT !.status = "managed",
                                                                   !.listening = TRUE]
    /\ lastOp' = StreamOp("manageStreamConnection")
    /\ UNCHANGED <<libKeeps, deduplicator, federation>>

\* a message event of the script context: the handler runs while it is a listener
MessageEvent(data) ==
    /\ streamConnection.status # "none"
    /\ Len(streamConnection.messages) < MaxAppMessages
    /\ streamConnection' =
          [(IF streamConnection.listening
            THEN messageHandler(streamConnection, data)
            ELSE streamConnection) EXCEPT !.messages = Append(@, data)]
    /\ lastOp' = StreamOp("message")
    /\ UNCHANGED <<libKeeps, deduplicator, federation>>

\* unsubscribeCompletely(): the function manageStreamConnection returned
UnsubscribeCompletely ==
    /\ streamConnection.status = "managed"
    /\ streamConnection' = [unsubscribeFromCurrent(streamConnection) EXCEPT
                               !.status = "unsubscribed", !.listening = FALSE]
    /\ lastOp' = StreamOp("unsubscribeCompletely")
    /\ UNCHANGED <<libKeeps, deduplicator, federation>>

NextStreamConnection ==
    \/ ManageStreamConnection
    \/ \E data \in AppMessages : MessageEvent(data)
    \/ UnsubscribeCompletely

SpecStreamConnection == Init /\ [][NextStreamConnection]_vars

(***************************************************************************)
(* One deduplicator: the closure of createMessageDeduplicator. A message   *)
(* is undefined or an object, written as the list of its properties in     *)
(* insertion order; a property value is the number 1 or undefined.         *)
(***************************************************************************)
MessageKeys == {"a", "b"}
MessageValues == {"1", "undefined"}
\* the objects with at most two properties
MessageObjects ==
    {<<>>}
    \cup {<<<<key, value>>>> : key \in MessageKeys, value \in MessageValues}
    \cup {<<<<"a", first>>, <<"b", second>>>> : first \in MessageValues, second \in MessageValues}
    \cup {<<<<"b", first>>, <<"a", second>>>> : first \in MessageValues, second \in MessageValues}
\* the message undefined
UndefinedMessage == <<<<"undefined", "undefined">>>>
StreamMessages == MessageObjects \cup {UndefinedMessage}

\* the properties JSON.stringify writes: those whose value is not undefined
RECURSIVE SerializedProperties(_)
SerializedProperties(properties) ==
    IF properties = <<>> THEN <<>>
    ELSE IF Head(properties)[2] = "undefined" THEN SerializedProperties(Tail(properties))
    ELSE <<Head(properties)[1], ":", Head(properties)[2]>>
         \o SerializedProperties(Tail(properties))

\* JSON.stringify(message): undefined (no string) for undefined, else the braces
\* around the written properties; the empty string is the empty sequence
JSONStringifyMessage(message) ==
    IF message = UndefinedMessage THEN <<"undefined">>
    ELSE <<"{">> \o SerializedProperties(message) \o <<"}">>

\* deduplicateMessage compares messages instead of their serializations
deduplicateMessage_ComparesMessages(state, message) ==
    IF state.received = <<>> \/ message # state.received[Len(state.received)]
    THEN [state EXCEPT !.lastMessageJson = JSONStringifyMessage(message),
                       !.received = Append(@, message),
                       !.handled = Append(@, message)]
    ELSE [state EXCEPT !.received = Append(@, message)]

\* deduplicateMessage(message, handler)
deduplicateMessage(state, message) ==
    LET serialized == JSONStringifyMessage(message)
    IN IF serialized # state.lastMessageJson
       THEN [state EXCEPT !.lastMessageJson = serialized,
                          !.received = Append(@, message),
                          !.handled = Append(@, message)]
       ELSE [state EXCEPT !.received = Append(@, message)]

\* createMessageDeduplicator()
CreateMessageDeduplicator ==
    /\ deduplicator.status = "none"
    /\ deduplicator' = [deduplicator EXCEPT !.status = "created",
                                            !.lastMessageJson = EmptyString]
    /\ lastOp' = StreamOp("createMessageDeduplicator")
    /\ UNCHANGED <<libKeeps, streamConnection, federation>>

\* a call of the function createMessageDeduplicator returned
DeduplicateMessage(message) ==
    /\ deduplicator.status = "created"
    /\ Len(deduplicator.received) < MaxDeduplicatedMessages
    /\ deduplicator' = deduplicateMessage(deduplicator, message)
    /\ lastOp' = StreamOp("deduplicateMessage")
    /\ UNCHANGED <<libKeeps, streamConnection, federation>>

NextDeduplicator ==
    \/ CreateMessageDeduplicator
    \/ \E message \in StreamMessages : DeduplicateMessage(message)

SpecDeduplicator == Init /\ [][NextDeduplicator]_vars

(***************************************************************************)
(* The federation lookup: lookupFederationRecord with the two caches of    *)
(* useFederationLookup. A lookup is a call of lookupFederationRecord; the  *)
(* net worker answers the lookups that wait for it in any order.           *)
(***************************************************************************)
FederationAddresses == {"alice*x.org", "bob*x.org"}
FederationAccountIDs == {"G1", "G2"}
\* FederationServer.Record
FederationRecords == [account_id : FederationAccountIDs]
NoRecord == [account_id |-> ""]

NotFoundMessage == "Request failed with status code 404"
\* what resolveDigitalBitsAddress rejects with: an Error, of a request or not,
\* with a response (its status) or without one (0)
ResolveErrors ==
    [name : {"Error"}, message : {NotFoundMessage, "Network Error"}, request : BOOLEAN,
     response : {0, 404, 500}]
NoError == [name |-> "", message |-> "", request |-> FALSE, response |-> 0]

\* CustomError(name, message, params)
CustomError(name) == [name |-> name, message |-> name, request |-> FALSE, response |-> 0]

\* isNotFoundError(error) for an Error
isNotFoundError(error) ==
    \/ error.message = NotFoundMessage
    \/ (error.response # 0 /\ error.response = 404)

\* cache.get(key): the value, or undefined (none)
cacheGet(cache, key, none) == IF key \in DOMAIN cache THEN cache[key] ELSE none

\* cache.set(key, value)
cacheSet(cache, key, value) ==
    [k \in DOMAIN cache \cup {key} |-> IF k = key THEN value ELSE cache[k]]

\* the catch block reports every error as a failed request
lookupFederationRecordCatch_AlwaysRequestFailed(error) ==
    CustomError("DigitalBitsAddressRequestFailedError")

\* the catch block of lookupFederationRecord: what it throws
lookupFederationRecordCatch(error) ==
    IF error.request /\ error.response = 0
    THEN CustomError("DigitalBitsAddressRequestFailedError")
    ELSE IF isNotFoundError(error)
    THEN CustomError("DigitalBitsAddressNotFoundError")
    ELSE error

\* lookupFederationRecord up to the await of the net worker's answer
lookupFederationRecord(state, digitalbitsAddress) ==
    LET cached == cacheGet(state.lookupCache, digitalbitsAddress, NoRecord)
        call == [address |-> digitalbitsAddress, stage |-> "resolving", returned |-> NoRecord,
                 error |-> NoError, thrown |-> NoError]
    IN IF cached # NoRecord
       THEN [state EXCEPT !.calls = Append(@, [call EXCEPT !.stage = "returned",
                                                           !.returned = cached])]
       ELSE [state EXCEPT !.calls = Append(@, call),
                          !.networkCalls = @ + 1]

\* lookupFederationRecord after resolveDigitalBitsAddress has fulfilled
lookupResolved(state, call, resolved) ==
    [state EXCEPT
        !.lookupCache = cacheSet(@, state.calls[call].address, resolved),
        !.reverseLookupCache = cacheSet(@, resolved.account_id, state.calls[call].address),
        !.calls[call].stage = "returned",
        !.calls[call].returned = resolved]

\* lookupFederationRecord after resolveDigitalBitsAddress has rejected
lookupRejected(state, call, error) ==
    [state EXCEPT !.calls[call].stage = "thrown",
                  !.calls[call].error = error,
                  !.calls[call].thrown = lookupFederationRecordCatch(error)]

LookupFederationRecord(digitalbitsAddress) ==
    /\ Len(federation.calls) < MaxLookups
    /\ federation' = lookupFederationRecord(federation, digitalbitsAddress)
    /\ lastOp' = StreamOp("lookupFederationRecord")
    /\ UNCHANGED <<libKeeps, streamConnection, deduplicator>>

ResolveFulfils(call, resolved) ==
    /\ call \in 1..Len(federation.calls)
    /\ federation.calls[call].stage = "resolving"
    /\ federation' = lookupResolved(federation, call, resolved)
    /\ lastOp' = StreamOp("resolved")
    /\ UNCHANGED <<libKeeps, streamConnection, deduplicator>>

ResolveRejects(call, error) ==
    /\ call \in 1..Len(federation.calls)
    /\ federation.calls[call].stage = "resolving"
    /\ federation' = lookupRejected(federation, call, error)
    /\ lastOp' = StreamOp("rejected")
    /\ UNCHANGED <<libKeeps, streamConnection, deduplicator>>

NextFederation ==
    \/ \E digitalbitsAddress \in FederationAddresses : LookupFederationRecord(digitalbitsAddress)
    \/ \E call \in 1..MaxLookups :
          \/ \E resolved \in FederationRecords : ResolveFulfils(call, resolved)
          \/ \E error \in ResolveErrors : ResolveRejects(call, error)

SpecFederation == Init /\ [][NextFederation]_vars

(***************************************************************************)
(* Specifications.                                                         *)
(***************************************************************************)
\* the optimistic update ledgers under submissions and fetches
Next ==
    \/ \E frontierURL \in URLs, transaction \in Transactions, status \in SubmitStatuses :
          SubmitTransaction(frontierURL, transaction, status)
    \/ \E frontierURLs \in FetchArguments, accountID \in Accounts :
          FetchAccountData(frontierURLs, accountID)
    \/ \E frontierURLs \in EndpointSets, accountID \in Accounts :
          \/ \E records \in SubSequences(HistoryOf(accountID)) :
                FetchAccountTransactions(frontierURLs, accountID, 200, records)
          \/ FetchAccountTransactions(frontierURLs, accountID, 404, <<>>)
    \/ ResetAllSubscriptions

Spec == Init /\ [][Next]_vars

Subscribes ==
    \/ \E frontierURLs \in SubscriptionEndpointSets, accountID \in Accounts :
          \/ SubscribeToAccount(frontierURLs, accountID)
          \/ SubscribeToAccountEffects(frontierURLs, accountID)
          \/ SubscribeToOpenOrders(frontierURLs, accountID)
          \/ SubscribeToAccountTransactions(frontierURLs, accountID)
    \/ \E frontierURLs \in SubscriptionEndpointSets, sellingAsset \in SellingAssetIDs,
          buyingAsset \in BuyingAssetIDs :
          SubscribeToOrderbook(frontierURLs, sellingAsset, buyingAsset)

\* the subscription caches under subscribe calls, resets and ending streams
NextCache ==
    \/ Subscribes
    \/ ResetAllSubscriptions
    \/ \E handle \in 1..Len(streams) : StreamCompletes(handle) \/ StreamErrors(handle)

SpecCache == Init /\ [][NextCache]_vars

\* the same with observers subscribing to and unsubscribing from the handles
NextStreams ==
    \/ NextCache
    \/ \E handle \in 1..Len(streams) : Observe(handle) \/ Unobserve(handle)

SpecStreams == Init /\ [][NextStreams]_vars

\* the endpoint selector beside the subscribe calls of the app
NextProvider ==
    \/ \E onLine \in BOOLEAN : MountProvider(onLine)
    \/ SelectionResolves
    \/ ResetNetworkCaches
    \/ UnmountProvider
    \/ ResetAllSubscriptions
    \/ \E frontierURLs \in SubscriptionEndpointSets, accountID \in Accounts :
          SubscribeToAccount(frontierURLs, accountID)

SpecProvider == Init /\ [][NextProvider]_vars

\* the ledgers under submissions, with observers coming and going
NextObservers ==
    \/ \E frontierURL \in URLs, transaction \in Transactions, status \in SubmitStatuses :
          SubmitTransaction(frontierURL, transaction, status)
    \/ \E ledger \in LedgerNames : ObserveUpdates(ledger)
    \/ \E observer \in 1..Len(observers) : UnobserveUpdates(observer)

SpecObservers == Init /\ [][NextObservers]_vars

\* the account whose record is subscribed to
SubscribedAccounts == {"A"}

\* one account subscription under submissions
NextAccount ==
    \/ \E frontierURLs \in SubscriptionEndpointSets, accountID \in SubscribedAccounts :
          SubscribeToAccountUncached(frontierURLs, accountID)
    \/ \E accountID \in SubscribedAccounts : \E accountData \in ServerSnapshots(accountID) :
          InitAccountSubscription(accountData)
    \/ \E frontierURL \in URLs, transaction \in Transactions, status \in SubmitStatuses :
          SubmitTransaction(frontierURL, transaction, status)
    \/ \E streamed \in BOOLEAN, accountID \in SubscribedAccounts :
       \E accountData \in ServerSnapshots(accountID) :
          \/ FetchAndApplyAccountUpdate(streamed, 200, accountData)
          \/ FetchAndApplyAccountUpdate(streamed, 404, accountData)
    \/ UnsubscribeAccount

SpecAccount == Init /\ [][NextAccount]_vars

OrderbookOps ==
    {"subscribeToOrderbook", "initOrderbook", "fetchAndApplyOrderbookUpdate", "unsubscribeOrderbook"}

\* one orderbook subscription
NextOrderbook ==
    \/ \E frontierURLs \in SubscriptionEndpointSets : SubscribeToOrderbookUncached(frontierURLs)
    \/ \E record \in OrderbookRecords :
          InitOrderbookSubscription(record) \/ FetchAndApplyOrderbookUpdate(record)
    \/ UnsubscribeOrderbook

\* one effects subscription with a stream that delivers the effects in any
\* order, any number of times
NextEffects ==
    \/ \E frontierURLs \in SubscriptionEndpointSets : SubscribeToAccountEffectsUncached(frontierURLs)
    \/ \E effect \in Effects :
          \/ InitEffectsSubscription(TRUE, effect)
          \/ InitEffectsSubscription(FALSE, effect)
          \/ StreamDeliversEffect(effect)

SpecEffects == Init /\ [][NextEffects]_vars

\* a worker with either an account subscription under submissions or, from the
\* start, an orderbook subscription
NextDedup ==
    \/ orderbookSub.status = "none" /\ lastOp.op \notin OrderbookOps /\ NextAccount
    \/ lastOp.op \in OrderbookOps \cup {"none"} /\ NextOrderbook

SpecDedup == Init /\ [][NextDedup]_vars

(***************************************************************************)
(* The overlay of one account's updates, applied to its own result.        *)
(***************************************************************************)
MaxFolds == 2
FoldURL == "u1"
FoldAccount == "A"
BAR == AssetOf("BAR", "ISS")

\* changeTrust and setOptions operations of the account
FoldOperations ==
    { ChangeTrustOp(NoString, FOO, 1000),
      ChangeTrustOp(NoString, FOO, 0),
      ChangeTrustOp(NoString, BAR, 500),
      ChangeTrustOp(NoString, PoolAssetOf("P1"), 10),
      ChangeTrustOp(NoString, PoolAssetOf("P2"), 10),
      ChangeTrustOp(NoString, PoolAssetOf("P1"), 0),
      SetOptionsOp(NoString, Ed25519Key("K", 2), Undef, Undef, Undef, Undef),
      SetOptionsOp(NoString, Ed25519Key("K", 0), Undef, Undef, Undef, Undef),
      SetOptionsOp(NoString, Ed25519Key(FoldAccount, 3), Undef, Undef, Undef, Undef),
      SetOptionsOp(NoString, NoSigner, 1, 2, 3, Undef),
      SetOptionsOp(NoString, NoSigner, Undef, Undef, Undef, 0),
      SetOptionsOp(NoString, Sha256Key("X", 1), Undef, 2, Undef, 5) }

SeqsUpTo(S, n) == UNION {[1..k -> S] : k \in 0..n}

\* the account records an overlay is applied to: as the server sent them
\* (subscribeToAccount) or without the liquidity pool lines (fetchAccountData)
FoldSnapshots ==
    ServerSnapshots(FoldAccount)
        \cup {WithoutLiquidityPools(accountData) : accountData \in ServerSnapshots(FoldAccount)}

\* the ledgers hold the updates of one accepted transaction of the account
InitFold ==
    \E operations \in SeqsUpTo(FoldOperations, MaxFoldOps) :
        /\ InitWorker(handleSubmittedTransaction([account |-> EmptyMap, offers |-> EmptyMap],
                                                 FoldURL,
                                                 Transaction("hf", FoldAccount, operations)))
        /\ foldBase \in FoldSnapshots
        /\ foldData = foldBase
        /\ folds = 0

\* optimisticallyUpdateAccountData(frontierURL, accountData) on the record at hand
FoldAccountData ==
    /\ folds < MaxFolds
    /\ foldData' = optimisticallyUpdateAccountData(accountDataUpdates, FoldURL, foldData)
    /\ folds' = folds + 1
    /\ UNCHANGED <<ledgerVars, roundRobinIndex, cacheVars, streamVars, lastOp, foldBase, observers,
                   accountDataCache, accountSub, otherVars>>

NextFold == FoldAccountData

SpecFold == InitFold /\ [][NextFold]_vars

(***************************************************************************)
(* One operation of an accepted transaction and the overlay it leaves.     *)
(***************************************************************************)
HashSigner(key, weight) == [type |-> "sha256_hash", key |-> key, weight |-> weight]

\* the changeTrust and setOptions operations a transaction of the account may carry
TrustOperations ==
    { ChangeTrustOp(NoString, line, limit) :
        line \in {FOO, BAR, PoolAssetOf("P1"), PoolAssetOf("P2")}, limit \in {0, 500, 1000} }
OptionsOperations ==
    { SetOptionsOp(NoString, signer, thresholds[1], thresholds[2], thresholds[3], masterWeight) :
        signer \in {NoSigner, Ed25519Key("K", 0), Ed25519Key("K", 1), Ed25519Key("K", 2),
                    Ed25519Key("N", 0), Ed25519Key("N", 4), Sha256Key("X", 1)},
        thresholds \in {<<Undef, Undef, Undef>>, <<1, 2, 3>>, <<Undef, 3, Undef>>},
        masterWeight \in {Undef, 0, 2} }

\* account records as a server sends them; the last one has a signer that is
\* not a key and the trustlines in another order
OperationSnapshots ==
    FoldSnapshots \cup
        { [account_id |-> FoldAccount, sequence |-> 3,
           balances |-> <<PoolLine("P2", 1, 10), AssetLine("BAR", "ISS", 0, 500), NativeLine(100)>>,
           signers |-> <<Ed25519Signer("K", 5), HashSigner("X", 1), Ed25519Signer(FoldAccount, 1)>>,
           thresholds |-> Thresholds(1, 2, 2)] }

InitOperation ==
    /\ InitWorker([account |-> EmptyMap, offers |-> EmptyMap])
    /\ foldBase \in OperationSnapshots
    /\ foldData = foldBase
    /\ folds = 0

\* submitTransaction of a transaction of the account with the one operation,
\* which the server accepts
SubmitOperation(operation) ==
    LET transaction == Transaction("hf", FoldAccount, <<operation>>)
        after == LedgersAfterSubmit(Ledgers, FoldURL, transaction, 200)
    IN /\ accepted = <<>>
       /\ accountDataUpdates' = after.account
       /\ offerUpdates' = after.offers
       /\ accepted' = Append(accepted, [hash |-> transaction.hash, frontierURL |-> FoldURL])
       /\ lastOp' = [op |-> "submitOperation", responseStatus |-> 200, operation |-> operation]
       /\ UNCHANGED <<sideVars, seen, roundRobinIndex, cacheVars, streamVars>>

NextOperation ==
    \/ \E operation \in TrustOperations \cup OptionsOperations : SubmitOperation(operation)
    \/ accepted # <<>> /\ FoldAccountData

SpecOperation == InitOperation /\ [][NextOperation]_vars

(***************************************************************************)
(* What the history variables say about the ledgers.                       *)
(***************************************************************************)
\* the updates one transaction yields for a ledger, in the order of its operations
RECURSIVE UpdatesFrom(_, _, _, _)
UpdatesFrom(ledger, frontierURL, transaction, i) ==
    IF i > Len(transaction.operations) THEN <<>>
    ELSE (IF ledger = "account"
          THEN AccountUpdatesOf(frontierURL, transaction.operations[i], transaction)
          ELSE OfferUpdatesOf(frontierURL, transaction.operations[i], transaction))
         \o UpdatesFrom(ledger, frontierURL, transaction, i + 1)

\* the updates the accepted submissions yielded for a ledger, in the order of submission
RECURSIVE SubmittedUpdates(_, _)
SubmittedUpdates(ledger, i) ==
    IF i > Len(accepted) THEN <<>>
    ELSE UpdatesFrom(ledger, accepted[i].frontierURL, TransactionByHash(accepted[i].hash), 1)
         \o SubmittedUpdates(ledger, i + 1)

\* has some transactions fetch returned a record with this hash?
HashSeen(hash) == \E url \in URLs : <<url, hash>> \in seen

\* the submitted updates that no removeStaleUpdates call with their URL and hash followed
LiveUpdates(ledger) ==
    SelectSeq(SubmittedUpdates(ledger, 1),
              LAMBDA update : <<update.frontierURL, update.transactionHash>> \notin seen)

AllUpdatesIn(updates) == UNION {Range(updates[selector]) : selector \in DOMAIN updates}

(***************************************************************************)
(* C1: after a submission with a changeTrust or setOptions operation for   *)
(* account A was answered with 200, every non-null result of               *)
(* fetchAccountData for A has the update applied, for every endpoint set   *)
(* the submission's URL belongs to, as long as no transactions fetch has   *)
(* returned the transaction's hash.                                        *)
(***************************************************************************)
C1_PendingUpdatesOf(frontierURLs, accountID) ==
    SelectSeq(SubmittedUpdates("account", 1),
              LAMBDA update : /\ update.effectsAccountID = accountID
                              /\ update.frontierURL \in Range(frontierURLs))

C1_FetchedDataHasPendingUpdates ==
    \A frontierURLs \in EndpointSets, accountID \in Accounts :
        LET pending == C1_PendingUpdatesOf(frontierURLs, accountID)
            frontierURL == FetchAccountDataURL([isArray |-> TRUE, urls |-> frontierURLs],
                                               roundRobinIndex)
        IN (\A i \in 1..Len(pending) : ~HashSeen(pending[i].transactionHash))
           => \A accountData \in ServerSnapshots(accountID) :
                 FetchAccountDataResult(accountDataUpdates, frontierURL, 200, accountData)
                     = Reduce(pending, WithoutLiquidityPools(accountData))

\* the same for the endpoint sets of one URL
C1_SingleURL ==
    \A frontierURLs \in {urls \in EndpointSets : Len(urls) = 1}, accountID \in Accounts :
        LET pending == C1_PendingUpdatesOf(frontierURLs, accountID)
            frontierURL == FetchAccountDataURL([isArray |-> TRUE, urls |-> frontierURLs],
                                               roundRobinIndex)
        IN (\A i \in 1..Len(pending) : ~HashSeen(pending[i].transactionHash))
           => \A accountData \in ServerSnapshots(accountID) :
                 FetchAccountDataResult(accountDataUpdates, frontierURL, 200, accountData)
                     = Reduce(pending, WithoutLiquidityPools(accountData))

(***************************************************************************)
(* C2: once fetchAccountTransactions for account A returns a page with the *)
(* hash of a submitted transaction, neither ledger holds an update of that *)
(* transaction for A any more (for the endpoint sets the submission's URL  *)
(* belongs to), so later fetchAccountData results carry no overlay of it.  *)
(***************************************************************************)
C2_Retired(updates, frontierURLs, accountID, records) ==
    \A update \in AllUpdatesIn(updates) :
        (update.effectsAccountID = accountID /\ update.frontierURL \in Range(frontierURLs))
            => update.transactionHash \notin Range(records)

C2_PageWithHashRetiresUpdates ==
    [][\A frontierURLs \in EndpointSets, accountID \in Accounts :
          \A records \in SubSequences(HistoryOf(accountID)) :
              FetchAccountTransactions(frontierURLs, accountID, 200, records)
                  => /\ C2_Retired(accountDataUpdates', frontierURLs, accountID, records)
                     /\ C2_Retired(offerUpdates', frontierURLs, accountID, records)]_vars

\* the same for the endpoint sets of one URL
C2_SingleURL ==
    [][\A frontierURLs \in {urls \in EndpointSets : Len(urls) = 1}, accountID \in Accounts :
          \A records \in SubSequences(HistoryOf(accountID)) :
              FetchAccountTransactions(frontierURLs, accountID, 200, records)
                  => /\ C2_Retired(accountDataUpdates', frontierURLs, accountID, records)
                     /\ C2_Retired(offerUpdates', frontierURLs, accountID, records)]_vars

(***************************************************************************)
(* C3: getUpdates(frontierURL, accountID) returns exactly the updates that *)
(* were added with that URL and account and not removed since, in the      *)
(* order they were added; optimisticallyUpdateAccountData applies them to  *)
(* the account data in that order, the first added first.                  *)
(***************************************************************************)
C3_LiveFor(ledger, frontierURL, accountID) ==
    SelectSeq(LiveUpdates(ledger),
              LAMBDA update : /\ update.frontierURL = frontierURL
                              /\ update.effectsAccountID = accountID)

\* the first n updates applied one after the other, the n-th last
RECURSIVE C3_AppliedUpTo(_, _, _)
C3_AppliedUpTo(updatesInOrder, n, accountData) ==
    IF n = 0 THEN accountData
    ELSE Apply(updatesInOrder[n], C3_AppliedUpTo(updatesInOrder, n - 1, accountData))

C3_LiveUpdatesInInsertionOrder ==
    \A frontierURL \in URLs, accountID \in Accounts :
        /\ getUpdates(accountDataUpdates, frontierURL, accountID)
               = C3_LiveFor("account", frontierURL, accountID)
        /\ getUpdates(offerUpdates, frontierURL, accountID)
               = C3_LiveFor("offers", frontierURL, accountID)
        /\ \A accountData \in ServerSnapshots(accountID) :
              LET live == C3_LiveFor("account", frontierURL, accountID)
              IN optimisticallyUpdateAccountData(accountDataUpdates, frontierURL, accountData)
                     = C3_AppliedUpTo(live, Len(live), accountData)

\* two updates of different transactions are live under one key, the order of the
\* two matters for some account data, and a removal has been called
C3_Witness ==
    \E frontierURL \in URLs, accountID \in Accounts :
        LET live == getUpdates(accountDataUpdates, frontierURL, accountID)
        IN /\ Len(live) >= 2
           /\ live[1].transactionHash # live[Len(live)].transactionHash
           /\ \E accountData \in ServerSnapshots(accountID) :
                 Reduce(live, accountData) # ReduceRight(live, accountData)
           /\ seen # {}

(***************************************************************************)
(* C4: removeStaleUpdates(frontierURL, hashes) removes exactly the entries *)
(* whose URL equals frontierURL and whose hash is among the hashes; every  *)
(* other entry stays under its key, in the same relative order.            *)
(***************************************************************************)
C4_Stale(update, frontierURL, hashes) ==
    update.frontierURL = frontierURL /\ update.transactionHash \in Range(hashes)

C4_OnlyStaleRemoved(before, after, frontierURL, hashes) ==
    /\ DOMAIN after = DOMAIN before
    /\ \A selector \in DOMAIN before :
          after[selector]
              = SelectSeq(before[selector], LAMBDA update : ~C4_Stale(update, frontierURL, hashes))

\* on every ledger the worker can reach, for every URL and every list of hashes
C4_RemovesExactlyUrlAndHashMatches ==
    \A frontierURL \in URLs :
        \A hashes \in SubSequences([i \in 1..Len(accepted) |-> accepted[i].hash]) :
            /\ C4_OnlyStaleRemoved(accountDataUpdates,
                                   removeStaleUpdates(accountDataUpdates, frontierURL, hashes),
                                   frontierURL, hashes)
            /\ C4_OnlyStaleRemoved(offerUpdates,
                                   removeStaleUpdates(offerUpdates, frontierURL, hashes),
                                   frontierURL, hashes)

\* a removal has taken an update of a key and left another one of the same key,
\* and has left an update whose hash it was given under another URL
C4_Witness ==
    /\ lastOp.op = "fetchAccountTransactions"
    /\ \E removed \in Range(SubmittedUpdates("account", 1)) :
          /\ <<removed.frontierURL, removed.transactionHash>> \in seen
          /\ \E kept \in Range(MapGet(accountDataUpdates, createCacheKey(removed), <<>>)) :
                kept.transactionHash # removed.transactionHash
    /\ \E kept \in AllUpdatesIn(accountDataUpdates) :
          \E url \in URLs \ {kept.frontierURL} : <<url, kept.transactionHash>> \in seen

(***************************************************************************)
(* C5: an update stays retrievable with getUpdates until a                 *)
(* removeStaleUpdates call with its URL and its hash; no other call        *)
(* (a fetch, a submission, resetAllSubscriptions) takes it out of a ledger.*)
(***************************************************************************)
C5_StillRetrievable(before, after, removedPairs) ==
    \A update \in AllUpdatesIn(before) :
        \/ update \in Range(getUpdates(after, update.frontierURL, update.effectsAccountID))
        \/ <<update.frontierURL, update.transactionHash>> \in removedPairs

C5_OnlyRemoveStaleRemoves ==
    [][LET removedPairs == IF lastOp'.op = "fetchAccountTransactions" THEN seen' \ seen ELSE {}
       IN /\ C5_StillRetrievable(accountDataUpdates, accountDataUpdates', removedPairs)
          /\ C5_StillRetrievable(offerUpdates, offerUpdates', removedPairs)]_vars

\* an update is retrievable after transactions fetches returned its hash from
\* another URL and other hashes from its URL, and after resetAllSubscriptions
C5_Witness ==
    /\ lastOp.op = "resetAllSubscriptions"
    /\ \E update \in AllUpdatesIn(accountDataUpdates) :
          /\ update \in Range(getUpdates(accountDataUpdates, update.frontierURL,
                                         update.effectsAccountID))
          /\ \E url \in URLs \ {update.frontierURL} : <<url, update.transactionHash>> \in seen
          /\ \E hash \in AcceptedHashes \ {update.transactionHash} :
                <<update.frontierURL, hash>> \in seen

(***************************************************************************)
(* C6: applying the overlay of an account's changeTrust and setOptions     *)
(* updates to account data that already is the result of that overlay      *)
(* changes nothing: fold(fold(s)) = fold(s).                               *)
(***************************************************************************)
C6_OverlayIdempotent ==
    folds >= 1 => optimisticallyUpdateAccountData(accountDataUpdates, FoldURL, foldData) = foldData

\* the same up to the order of the balance lines and of the signers
C6_SameUpToOrder(a, b) ==
    /\ Len(a.balances) = Len(b.balances)
    /\ Range(a.balances) = Range(b.balances)
    /\ Len(a.signers) = Len(b.signers)
    /\ Range(a.signers) = Range(b.signers)
    /\ [a EXCEPT !.balances = <<>>, !.signers = <<>>] = [b EXCEPT !.balances = <<>>, !.signers = <<>>]

C6_IdempotentUpToOrder ==
    folds >= 1 =>
        C6_SameUpToOrder(optimisticallyUpdateAccountData(accountDataUpdates, FoldURL, foldData),
                         foldData)

\* the overlay of two updates or more was applied twice and changed the record
C6_Witness ==
    /\ folds = 2
    /\ foldData # foldBase
    /\ Len(getUpdates(accountDataUpdates, FoldURL, FoldAccount)) >= 2

(***************************************************************************)
(* C7: two calls of a memoized subscribe function with equal keys and no   *)
(* resetAllSubscriptions in between return the identical stream handle,    *)
(* and the underlying subscribe function is called once; the first call    *)
(* with that key after resetAllSubscriptions calls the underlying function *)
(* again and returns a new handle.                                         *)
(***************************************************************************)
C7_OneHandlePerKeyBetweenResets ==
    \A slot \in DOMAIN epochCalls :
        /\ Cardinality(epochCalls[slot].returned) = 1
        /\ epochCalls[slot].subscribed = 1
        /\ epochCalls[slot].returned \cap staleHandles = {}

\* a key was subscribed to before a reset, and twice or more after it
C7_Witness ==
    \E slot \in DOMAIN epochCalls :
        /\ epochCalls[slot].repeated
        /\ \E handle \in staleHandles :
              <<streams[handle].kind, streams[handle].cacheKey>> = slot

(***************************************************************************)
(* C8: in every reachable state at most one stream per subscription key    *)
(* has a live upstream connection, also after a reset while an observer of *)
(* the old handle is still subscribed.                                     *)
(***************************************************************************)
C8_Live(handle) ==
    /\ streams[handle].upstream
    /\ streams[handle].status = "open"
    /\ streams[handle].observers > 0

C8_OneLiveConnectionPerKey ==
    \A h1 \in 1..Len(streams), h2 \in 1..Len(streams) :
        (/\ C8_Live(h1)
         /\ C8_Live(h2)
         /\ streams[h1].kind = streams[h2].kind
         /\ streams[h1].cacheKey = streams[h2].cacheKey) => h1 = h2

\* the same while no reset has left a handle behind
C8_WithoutReset ==
    staleHandles = {} => C8_OneLiveConnectionPerKey

(***************************************************************************)
(* C9: an entry leaves a subscription cache only when all five caches are  *)
(* emptied in one step, as resetAllSubscriptions does; an entry whose      *)
(* stream has completed or errored stays cached and is what a later call   *)
(* with its key returns.                                                   *)
(***************************************************************************)
C9_Caches(account, effects, orderbook, orders, transactions) ==
    <<account, effects, orderbook, orders, transactions>>

C9_EntriesKept(before, after) ==
    \A key \in DOMAIN before : key \in DOMAIN after /\ after[key] = before[key]

C9_EntriesLeaveOnlyOnReset ==
    [][LET before == C9_Caches(accountSubscriptionCache, effectsSubscriptionCache,
                               orderbookSubscriptionCache, ordersSubscriptionCache,
                               transactionsSubscriptionCache)
           after == C9_Caches(accountSubscriptionCache', effectsSubscriptionCache',
                              orderbookSubscriptionCache', ordersSubscriptionCache',
                              transactionsSubscriptionCache')
       IN /\ \/ \A i \in 1..5 : C9_EntriesKept(before[i], after[i])
             \/ \A i \in 1..5 : after[i] = EmptyMap
          /\ \A i \in 1..5 : \A key \in DOMAIN before[i] :
                LET call == cachify(before[i], key, Len(streams) + 1)
                IN call.observable = before[i][key] /\ ~call.subscribed]_vars

\* after a reset that emptied caches, a stream ended and a later call with its
\* key got it from the cache, where it still is
C9_Witness ==
    /\ staleHandles # {}
    /\ \E slot \in DOMAIN epochCalls :
          /\ epochCalls[slot].endedReturned
          /\ \E handle \in epochCalls[slot].returned :
                /\ streams[handle].status \in {"completed", "errored"}
                /\ \E cache \in {accountSubscriptionCache, effectsSubscriptionCache,
                                 orderbookSubscriptionCache, ordersSubscriptionCache,
                                 transactionsSubscriptionCache} :
                      /\ streams[handle].cacheKey \in DOMAIN cache
                      /\ cache[streams[handle].cacheKey] = handle

(***************************************************************************)
(* C10: submitTransaction records the optimistic updates of the            *)
(* transaction if and only if the response status is 200, and has done so  *)
(* when it returns; with any other status both ledgers stay as they were,  *)
(* and the status and the body are returned all the same.                  *)
(***************************************************************************)
\* the updates of a ledger under a key, after those of a transaction were added
C10_Recorded(ledger, before, after, frontierURL, transaction) ==
    \A url \in URLs, accountID \in Accounts :
        getUpdates(after, url, accountID)
            = getUpdates(before, url, accountID)
                \o SelectSeq(UpdatesFrom(ledger, frontierURL, transaction, 1),
                             LAMBDA update : /\ update.frontierURL = url
                                             /\ update.effectsAccountID = accountID)

C10_UpdatesRecordedIffStatus200 ==
    [][lastOp'.op = "submitTransaction" =>
       \A frontierURL \in URLs, transaction \in Transactions, status \in SubmitStatuses :
           LET result == SubmitTransactionResult(status, ResponseBody(status, transaction.hash))
           IN SubmitTransaction(frontierURL, transaction, status)
                  => /\ result.status = status
                     /\ result.data = ResponseBody(status, transaction.hash)
                     /\ IF status = 200
                        THEN /\ C10_Recorded("account", accountDataUpdates, accountDataUpdates',
                                             frontierURL, transaction)
                             /\ C10_Recorded("offers", offerUpdates, offerUpdates',
                                             frontierURL, transaction)
                        ELSE UNCHANGED <<accountDataUpdates, offerUpdates>>]_vars

\* a submission was answered with another status while the ledgers held updates of
\* an earlier submission that was answered with 200
C10_Witness ==
    /\ lastOp.op = "submitTransaction"
    /\ lastOp.responseStatus = 400
    /\ AllUpdatesIn(accountDataUpdates) # {}
    /\ AllUpdatesIn(offerUpdates) # {}

(***************************************************************************)
(* C11: addUpdates(list) appends every update of the list under its key    *)
(* and emits each of them exactly once, in list order, to every current    *)
(* observer of observe(); at the moment an update is emitted, getUpdates   *)
(* already returns it for its key. Stated for the addUpdates calls of an   *)
(* accepted submission: every subscribed observer of a ledger is sent      *)
(* exactly the updates added to that ledger, in the order they were added, *)
(* each already stored; the other observers are sent nothing; and each key *)
(* has its new updates appended in that order.                             *)
(***************************************************************************)
C11_Sent(ledger, added) ==
    [i \in 1..Len(added) |-> [update |-> added[i], stored |-> TRUE]]

C11_AppendedUnderKey(before, after, added) ==
    \A frontierURL \in URLs, accountID \in Accounts :
        getUpdates(after, frontierURL, accountID)
            = getUpdates(before, frontierURL, accountID)
                \o SelectSeq(added, LAMBDA update :
                                createCacheKey(update)
                                    = createAccountCacheKeyByFilter(frontierURL, accountID))

C11_EmittedOnceInOrderAfterStore ==
    [][accepted' # accepted =>
        LET submission == accepted'[Len(accepted')]
            added(ledger) == UpdatesFrom(ledger, submission.frontierURL,
                                         TransactionByHash(submission.hash), 1)
        IN /\ \A o \in DOMAIN observers :
                 observers'[o].log =
                    IF observers[o].subscribed
                    THEN observers[o].log \o C11_Sent(observers[o].ledger, added(observers[o].ledger))
                    ELSE observers[o].log
           /\ C11_AppendedUnderKey(accountDataUpdates, accountDataUpdates', added("account"))
           /\ C11_AppendedUnderKey(offerUpdates, offerUpdates', added("offers"))]_vars

\* two observers of the account ledger, one of them unsubscribed, after a
\* setOptions operation that adds two updates in one addUpdates call
C11_Witness ==
    /\ Len(observers) = 2
    /\ observers[1].ledger = "account" /\ observers[1].subscribed
    /\ Len(observers[1].log) = 2
    /\ observers[1].log[1].update.kind = "addSigner"
    /\ observers[1].log[2].update.kind = "setMasterWeight"
    /\ observers[2].ledger = "account" /\ ~observers[2].subscribed
    /\ observers[2].log = <<>>

(***************************************************************************)
(* C12: when an optimistic account update for account A at the endpoint of *)
(* a live account subscription is added, the candidate the subscription    *)
(* derives from it (the cached account record with the live updates folded *)
(* in) is accepted by shouldApplyUpdate, for every kind of account update: *)
(* trustline add or remove, signer add or remove, threshold change and     *)
(* master-weight change.                                                   *)
(***************************************************************************)
\* the candidates the subscription derives from the updates of the submission
\* accepted in this step
C12_Derived ==
    LET submission == accepted'[Len(accepted')]
    IN StreamedCandidates(accountSub, accountDataCache,
                          EmissionsAfterSubmit(Ledgers, submission.frontierURL,
                                               TransactionByHash(submission.hash), 200))

C12_ForSubscription(update) ==
    /\ update.effectsAccountID = accountSub.accountID
    /\ update.frontierURL = accountSub.frontierURL

C12_CandidateAccepted ==
    [][(accepted' # accepted /\ accountSub.status = "live") =>
          \A i \in 1..Len(C12_Derived) :
              C12_ForSubscription(C12_Derived[i].update) =>
                  accountShouldApplyUpdate(accountSub.latestSnapshot, C12_Derived[i].candidate)]_vars

\* the same for the updates that change the balance lines of the cached record
C12_BalanceChangeAccepted ==
    [][(accepted' # accepted /\ accountSub.status = "live") =>
          \A i \in 1..Len(C12_Derived) :
              (/\ C12_ForSubscription(C12_Derived[i].update)
               /\ C12_Derived[i].candidate.balances
                      # accountDataCache[accountSub.cacheKey].balances) =>
                  accountShouldApplyUpdate(accountSub.latestSnapshot, C12_Derived[i].candidate)]_vars

\* the same for the updates of signers, thresholds and master weight
C12_SignerChangeAccepted ==
    [][(accepted' # accepted /\ accountSub.status = "live") =>
          \A i \in 1..Len(C12_Derived) :
              (/\ C12_ForSubscription(C12_Derived[i].update)
               /\ C12_Derived[i].update.kind
                      \in {"addSigner", "removeSigner", "setThresholds", "setMasterWeight"}
               /\ accountSub.latestSnapshot # NoSnapshot) =>
                  accountShouldApplyUpdate(accountSub.latestSnapshot, C12_Derived[i].candidate)]_vars

(***************************************************************************)
(* C13: shouldApplyUpdate of the account and orderbook subscriptions does  *)
(* not change any state: if a candidate has the same fingerprint as the    *)
(* last committed snapshot, the round that tests it does not apply it and  *)
(* leaves the committed snapshot and the cached account record unchanged,  *)
(* and testing the candidate again in the state after the round returns    *)
(* false again.                                                            *)
(***************************************************************************)
C13_AccountRound ==
    (/\ lastOp'.op = "fetchAndApplyUpdate"
     /\ accountSub'.fetched # Null
     /\ createSnapshot(accountSub'.fetched) = accountSub.latestSnapshot)
        => /\ ~accountSub'.applied
           /\ accountSub'.latestSnapshot = accountSub.latestSnapshot
           /\ accountDataCache' = accountDataCache
           /\ ~accountShouldApplyUpdate(accountSub'.latestSnapshot, accountSub'.fetched)

C13_OrderbookRound ==
    (/\ lastOp'.op = "fetchAndApplyOrderbookUpdate"
     /\ JSONStringify(orderbookSub'.fetched) = orderbookSub.latestKnownSnapshot)
        => /\ ~orderbookSub'.applied
           /\ orderbookSub'.latestKnownSnapshot = orderbookSub.latestKnownSnapshot
           /\ ~orderbookShouldApplyUpdate(orderbookSub'.latestKnownSnapshot, orderbookSub'.fetched)

C13_SameFingerprintNeverApplied ==
    [][C13_AccountRound /\ C13_OrderbookRound]_vars

\* a round has fetched an account record with the committed sequence number and
\* balance lines but other signers than the cached record, and did not apply it
C13_Witness ==
    /\ accountSub.status = "live"
    /\ lastOp.op = "fetchAndApplyUpdate"
    /\ accountSub.fetched # Null
    /\ createSnapshot(accountSub.fetched) = accountSub.latestSnapshot
    /\ ~accountSub.applied
    /\ accountSub.fetched.signers # accountDataCache[accountSub.cacheKey].signers

\* a round has fetched an orderbook record whose JSON text is the committed one
C13_OrderbookWitness ==
    /\ orderbookSub.status = "live"
    /\ lastOp.op = "fetchAndApplyOrderbookUpdate"
    /\ JSONStringify(orderbookSub.fetched) = orderbookSub.latestKnownSnapshot
    /\ ~orderbookSub.applied

(***************************************************************************)
(* C14: for the account-effects subscription, whatever order and           *)
(* duplication the stream delivers effects in, the sequence of effects     *)
(* accepted by shouldApplyUpdate and committed by applyUpdate has          *)
(* non-decreasing created_at and never contains the same effect (same      *)
(* paging token) twice.                                                    *)
(***************************************************************************)
C14_NonDecreasing(applied) ==
    \A i, j \in 1..Len(applied) : i < j => applied[i].created_at <= applied[j].created_at

C14_NoEffectTwice(applied) ==
    \A i, j \in 1..Len(applied) : i # j => applied[i].paging_token # applied[j].paging_token

C14_MonotoneWithoutDuplicates ==
    effectsSub.status = "live" =>
        C14_NonDecreasing(effectsSub.applied) /\ C14_NoEffectTwice(effectsSub.applied)

\* the part of the claim that holds: created_at never decreases
C14_CreatedAtNeverDecreases ==
    effectsSub.status = "live" => C14_NonDecreasing(effectsSub.applied)

(***************************************************************************)
(* C15: in TransactionSender submissionStatus moves only from "before" to  *)
(* "pending", from "pending" to "fulfilled" or "rejected", and from        *)
(* "rejected" back to "pending" through retrySubmission; retrySubmission   *)
(* submits the signed transaction stored at signing time and never calls   *)
(* signTransaction again.                                                  *)
(***************************************************************************)
\* the submission promise now shown was created by a retrySubmission call
C15_PromiseOfRetry(state) ==
    \E call \in 1..Len(state.calls) :
        /\ state.calls[call].promise = state.submissionPromise
        /\ state.calls[call].retry

C15_StatusStep ==
    \/ sender'.submissionStatus = sender.submissionStatus
    \/ sender.submissionStatus = "before" /\ sender'.submissionStatus = "pending"
    \/ sender.submissionStatus = "pending" /\ sender'.submissionStatus \in {"fulfilled", "rejected"}
    \/ /\ sender.submissionStatus = "rejected"
       /\ sender'.submissionStatus = "pending"
       /\ C15_PromiseOfRetry(sender')

C15_RetryStep ==
    lastOp'.op = "retrySubmission" =>
        /\ sender'.signed = sender.signed
        /\ Len(sender'.calls) > Len(sender.calls) =>
              sender'.calls[Len(sender'.calls)].tx = sender.signedTransaction

C15_StatusLifecycle == [][C15_StatusStep /\ C15_RetryStep]_vars

\* the part of the claim that holds: a retry submits the stored signed
\* transaction and signs nothing
C15_RetryNeverSigns == [][C15_RetryStep]_vars

(***************************************************************************)
(* C16: after a submission promise rejects, submissionStatus is            *)
(* "rejected", the review dialog stays open (confirmationDialogOpen true   *)
(* and submissionPromise non-null) and the signed transaction stays stored *)
(* for retry, until the user closes the dialog; no timer closes it.        *)
(***************************************************************************)
\* the dialog shows a rejected submission that can be retried
C16_RejectedOpen(state) ==
    /\ state.submissionPromise # 0
    /\ state.promises[state.submissionPromise].state = "rejected"
    /\ state.submissionStatus = "rejected"
    /\ state.confirmationDialogOpen
    /\ state.signedTransaction # 0

\* a promise rejects while the dialog is open
C16_RejectionStep ==
    lastOp'.op = "rejected" /\ sender.confirmationDialogOpen => C16_RejectedOpen(sender')

C16_TimerStep ==
    C16_RejectedOpen(sender) /\ lastOp'.op \in TimerKinds => C16_RejectedOpen(sender')

C16_RejectedStaysOpen == [][C16_RejectionStep /\ C16_TimerStep]_vars

\* the part of the claim that holds: the rejection itself sets no timer
C16_RejectionSetsNoTimer ==
    [][lastOp'.op = "rejected" => sender'.timers = sender.timers]_vars

(***************************************************************************)
(* C17: when signing fails with a wrong-password error, TransactionSender  *)
(* stores the error as passwordError and leaves submissionStatus,          *)
(* submissionPromise and confirmationDialogOpen unchanged, submits nothing *)
(* and does not invoke onSubmissionFailure; any other signing error is     *)
(* propagated to the caller.                                               *)
(***************************************************************************)
C17_WrongPasswordStep ==
    lastOp'.op = "wrongPassword" =>
        /\ sender'.passwordError
        /\ sender'.submissionStatus = sender.submissionStatus
        /\ sender'.submissionPromise = sender.submissionPromise
        /\ sender'.confirmationDialogOpen = sender.confirmationDialogOpen
        /\ sender'.calls = sender.calls
        /\ sender'.promises = sender.promises
        /\ sender'.failures = sender.failures
        /\ sender'.thrown = sender.thrown

C17_OtherErrorStep ==
    lastOp'.op = "otherError" =>
        /\ sender'.thrown = sender.thrown + 1
        /\ sender'.passwordError = sender.passwordError
        /\ sender'.calls = sender.calls
        /\ sender'.failures = sender.failures

C17_WrongPasswordOnlyStored == [][C17_WrongPasswordStep /\ C17_OtherErrorStep]_vars

\* a wrong password was entered for the second transaction of the component
C17_Witness ==
    /\ lastOp.op = "wrongPassword"
    /\ sender.passwordError
    /\ sender.confirmationDialogOpen
    /\ sender.submissionStatus # "before"
    /\ sender.submissionPromise = 0

(***************************************************************************)
(* C18: onSubmissionCompleted is invoked only for a transaction whose      *)
(* submission succeeded (its submission promise fulfilled), exactly once   *)
(* per successful submission, and never after a rejected submission or     *)
(* when no submission was made.                                            *)
(***************************************************************************)
\* the number of entries of a sequence that equal a value
C18_Count(sequence, value) == Cardinality({i \in 1..Len(sequence) : sequence[i] = value})

\* the submission promises of a transaction that fulfilled
C18_Fulfilled(transaction) ==
    {p \in 1..Len(sender.promises) :
        sender.promises[p].tx = transaction /\ sender.promises[p].state = "fulfilled"}

\* every onSubmissionCompleted call answers a fulfilled submission promise of
\* its transaction, and no promise is answered twice
C18_CompletedOncePerSuccess ==
    \A transaction \in 1..MaxSenderTransactions :
        C18_Count(sender.completed, transaction) <= Cardinality(C18_Fulfilled(transaction))

\* the part of the claim that holds: no completion follows a rejected promise
C18_NoneForRejected ==
    \A call \in 1..Len(sender.calls) :
        /\ sender.calls[call].promise # 0
        /\ sender.promises[sender.calls[call].promise].state = "rejected"
        => [kind |-> "completed", call |-> call] \notin sender.timers

(***************************************************************************)
(* C19: every signed transaction handed to submitSignedTransaction is      *)
(* submitted through exactly one channel: to the third-party security      *)
(* service if isThirdPartyProtected returns a service for the account, and *)
(* otherwise directly to the network; a protected account's transaction is *)
(* never submitted directly.                                               *)
(***************************************************************************)
\* the calls whose branch has been taken
C19_Decided == {call \in 1..Len(sender.calls) : sender.calls[call].stage # "checking"}

\* the submission promises a call has created
C19_PromisesOf(call) ==
    {p \in 1..Len(sender.promises) : sender.calls[call].promise = p}

C19_ExactlyOneChannel ==
    \A call \in C19_Decided :
        /\ Cardinality(C19_PromisesOf(call)) = 1
        /\ sender.calls[call].channel =
              IF sender.calls[call].service THEN "thirdParty" ELSE "frontier"
        /\ sender.promises[sender.calls[call].promise].channel = sender.calls[call].channel

\* the part of the claim that holds: a protected account's transaction goes
\* to the third-party service and never directly to the network
C19_ProtectedNeverDirect ==
    \A call \in C19_Decided :
        sender.calls[call].service =>
            /\ sender.calls[call].channel = "thirdParty"
            /\ sender.promises[sender.calls[call].promise].channel = "thirdParty"

(***************************************************************************)
(* C20: the endpoint selector invokes the global subscription reset        *)
(* (resetAllSubscriptions) and the metadata cache reset only when the      *)
(* resolved endpoint lists differ from the default lists, and then exactly *)
(* once; when the resolved lists equal the defaults no reset happens.      *)
(***************************************************************************)
\* the resolved lists and the default lists hold different URLs
C20_ListsDiffer(resolved) ==
    \/ resolved.pubnetFrontierURLs.urls # initialValues.pubnetFrontierURLs.urls
    \/ resolved.testnetFrontierURLs.urls # initialValues.testnetFrontierURLs.urls

C20_ResetOnceOnlyWhenListsDiffer ==
    /\ provider.resetCalls <= 1
    /\ provider.cacheResets <= provider.resetCalls
    /\ provider.resetCalls > 0 => C20_ListsDiffer(initialFrontierSelection)
    /\ ~provider.contextValue.isSelectionPending /\ C20_ListsDiffer(initialFrontierSelection)
          => provider.resetCalls = 1
    /\ provider.status = "done" => provider.cacheResets = provider.resetCalls

\* the selection has resolved to other lists and both resets have run once,
\* the subscription reset on a worker that had handed out a stream
C20_Witness ==
    /\ provider.status = "done"
    /\ provider.contextValue.testnetFrontierURLs = initialFrontierSelection.testnetFrontierURLs
    /\ provider.resetCalls = 1
    /\ provider.cacheResets = 1
    /\ staleHandles # {}

(***************************************************************************)
(* C21: checkFrontierOrFailover returns the primary URL if and only if the *)
(* primary answers the health check within 2.5 s with a status below 300   *)
(* or with 404; in every other case (timeout, network error, other status) *)
(* it returns the secondary URL.                                           *)
(***************************************************************************)
\* the primary answered in time with a status below 300 or with 404
C21_PrimaryFine(call) ==
    /\ call.primaryOutcome.kind = "response"
    /\ call.primaryOutcome.ms < 2500
    /\ (call.primaryOutcome.status < 300 \/ call.primaryOutcome.status = 404)

\* the secondary answered with a status below 300 or with 404
C21_SecondaryFine(call) ==
    /\ call.secondaryOutcome.kind = "response"
    /\ (call.secondaryOutcome.status < 300 \/ call.secondaryOutcome.status = 404)

C21_PrimaryIffFineElseSecondary ==
    failover.status = "called" =>
        /\ failover.result = failover.primary <=> C21_PrimaryFine(failover)
        /\ ~C21_PrimaryFine(failover) => failover.result = failover.secondary

(***************************************************************************)
(* C21, amended: the call returns the primary URL when the primary answers *)
(* within 2.5 s with a status below 300 or with 404; otherwise it asks the *)
(* secondary and returns the secondary URL when that answers with a status *)
(* below 300 or with 404, the primary URL when it answers with any other   *)
(* status, and rejects when the request to the secondary fails.            *)
(***************************************************************************)
C21_SecondaryOnlyWhenFine ==
    failover.status = "called" =>
        /\ C21_PrimaryFine(failover) => failover.result = failover.primary
        /\ ~C21_PrimaryFine(failover) =>
              /\ failover.result = failover.secondary <=> C21_SecondaryFine(failover)
              /\ failover.result = failover.primary
                    <=> failover.secondaryOutcome.kind = "response" /\ ~C21_SecondaryFine(failover)
              /\ failover.result = Rejected <=> failover.secondaryOutcome.kind = "error"

\* the primary timed out and the secondary answered 500: the primary is returned
C21_Witness ==
    /\ failover.status = "called"
    /\ failover.primaryOutcome.kind = "response"
    /\ failover.primaryOutcome.ms > 2500
    /\ failover.secondaryOutcome.kind = "response"
    /\ failover.secondaryOutcome.status = 500
    /\ failover.result = failover.primary

(***************************************************************************)
(* C22: while endpoint selection is still pending, a consumer that asks    *)
(* for the endpoint list of a network mode (useFrontierURLs) obtains the   *)
(* default endpoint set for that mode.                                     *)
(***************************************************************************)
\* the default list of a mode
C22_Default(testnet) ==
    IF testnet THEN initialValues.testnetFrontierURLs ELSE initialValues.pubnetFrontierURLs

C22_DefaultsWhilePending ==
    provider.status # "unmounted" /\ provider.contextValue.isSelectionPending =>
        \A testnet \in BOOLEAN :
            useFrontierURLs(provider.contextValue, testnet)
                = [kind |-> "returned", value |-> C22_Default(testnet)]

\* what holds instead: while the selection is pending the hook throws the
\* pending promise, and afterwards it returns the list of the context
C22_SuspendsWhilePending ==
    \A testnet \in BOOLEAN :
        useFrontierURLs(provider.contextValue, testnet).kind = "thrown"
            <=> provider.contextValue.isSelectionPending

(***************************************************************************)
(* C23: for every upstream URL and every interleaving of the fetch,        *)
(* subscribe and submit operations of the network worker, at no time are   *)
(* more than 4 requests to that URL in flight and no more than 4 are       *)
(* started within one 1000 ms interval; further requests wait in the       *)
(* queue, and a request that takes longer than 10 s fails with a timeout   *)
(* error.                                                                  *)
(***************************************************************************)
\* the requests to a URL the server has not answered yet
C23_InFlight(fetchQueue) == fetchQueue.pendingCount + fetchQueue.timedOut

C23_AtMostFourInFlight ==
    \A frontierURL \in DOMAIN fetchQueues :
        /\ C23_InFlight(fetchQueues[frontierURL]) <= 4
        /\ fetchQueues[frontierURL].intervalCount <= 4

\* the part of the claim that holds: the queue has at most 4 tasks pending,
\* starts at most 4 in one interval, and a task waits only at one of the limits
C23_QueueWithinLimits ==
    \A frontierURL \in DOMAIN fetchQueues :
        LET fetchQueue == fetchQueues[frontierURL]
        IN /\ fetchQueue.pendingCount <= 4
           /\ fetchQueue.intervalCount <= 4
           /\ fetchQueue.queue # <<>> =>
                 fetchQueue.pendingCount = 4 \/ fetchQueue.intervalCount = 4

(***************************************************************************)
(* C24: getFetchQueue creates the queue of an upstream URL on first use    *)
(* and returns that same queue for that URL on every later call for the    *)
(* rest of the process; different URLs get different queues, and no        *)
(* operation, resetAllSubscriptions included, removes or replaces a queue. *)
(***************************************************************************)
\* every queue there is stays the queue of its URL
C24_QueuesKept ==
    \A frontierURL \in DOMAIN fetchQueues :
        /\ frontierURL \in DOMAIN fetchQueues'
        /\ fetchQueues'[frontierURL].id = fetchQueues[frontierURL].id

\* a call creates the queue when there is none and changes nothing otherwise
C24_CreatedOnFirstUse ==
    \A frontierURL \in URLs :
        LET queues == getFetchQueue(fetchQueues, frontierURL)
        IN /\ frontierURL \in DOMAIN queues
           /\ frontierURL \in DOMAIN fetchQueues => queues = fetchQueues
           /\ getFetchQueue(queues, frontierURL) = queues
           /\ \A other \in DOMAIN queues \ {frontierURL} :
                 queues[other].id # queues[frontierURL].id

C24_OneQueuePerURLForGood == [][C24_CreatedOnFirstUse /\ C24_QueuesKept]_vars

\* both URLs have their queue, one of them with requests, and the
\* subscriptions have been reset
C24_Witness ==
    /\ DOMAIN fetchQueues = URLs
    /\ \E frontierURL \in URLs : fetchQueues[frontierURL].pendingCount > 1
    /\ lastOp.op = "resetAllSubscriptions"

(***************************************************************************)
(* C25: for every caller of waitForAccountData that passes shouldCancel,   *)
(* shouldCancel is polled before each fetch attempt of the wait, and once  *)
(* it returns true the wait rejects with the Cancellation error, performs  *)
(* no further fetch and never resolves with account data.                  *)
(***************************************************************************)
\* the shouldCancel of every caller waiting at a fetch was asked before it
C25_EveryCallerPolled == waiting.status = "fetching" => waiting.atFetch \subseteq waiting.polled

\* a fetch is issued only when no waiting caller's shouldCancel returns true
C25_NoFetchAfterCancel ==
    waiting'.fetches > waiting.fetches /\ waiting'.fetches > 1 =>
        waiting'.atFetch \cap waiting.cancelRequested = {}

C25_CancelStopsTheWait ==
    [][C25_EveryCallerPolled' /\ C25_NoFetchAfterCancel]_vars

\* the part of the claim that holds: the shouldCancel of the call that
\* started the wait is asked before each fetch, and when it returns true the
\* wait rejects with Cancellation instead of fetching
C25_StarterCancels ==
    [][/\ waiting'.status = "fetching" => waiting'.starter \in waiting'.polled
       /\ lastOp'.op = "waitDelayed" /\ waiting.starter \in waiting.cancelRequested =>
             /\ waiting'.status = "rejected"
             /\ waiting'.error = "Cancellation"
             /\ waiting'.fetches = waiting.fetches]_vars

(***************************************************************************)
(* C26: while waiting for an account to be created, a 404 response never   *)
(* makes the wait fail: the loop delays and fetches again, for any number  *)
(* of 404 responses, and resolves with the account data on the first 200;  *)
(* a response with any status other than 200 and 404 makes the wait reject *)
(* with RequestFailedError without a further attempt.                      *)
(***************************************************************************)
\* what a response does to the wait
C26_ResponseStep ==
    lastOp'.op = "waitAnswered" =>
        /\ waiting'.fetches = waiting.fetches
        /\ lastOp'.responseStatus = 404 =>
              waiting'.status = "delaying" /\ waiting'.pending /\ waiting'.error = "none"
        /\ lastOp'.responseStatus = 200 => waiting'.status = "resolved"
        /\ lastOp'.responseStatus \notin {200, 404} =>
              waiting'.status = "rejected" /\ waiting'.error = "RequestFailedError"

\* after the delay the account is fetched again unless the wait was cancelled
C26_DelayStep ==
    lastOp'.op = "waitDelayed" /\ waiting.starter \notin waiting.cancelRequested =>
        waiting'.status = "fetching" /\ waiting'.fetches = waiting.fetches + 1

\* a wait that has resolved or rejected fetches no more
C26_SettledStep ==
    waiting.status \in {"resolved", "rejected"} /\ lastOp'.op # "waitForAccountData" =>
        waiting'.status = waiting.status /\ waiting'.fetches = waiting.fetches

C26_Only404IsRetried == [][C26_ResponseStep /\ C26_DelayStep /\ C26_SettledStep]_vars

\* the third fetch of a wait, after two 404 responses, was answered with 200
C26_Witness ==
    /\ waiting.status = "resolved"
    /\ waiting.fetches = 3
    /\ lastOp = [op |-> "waitAnswered", responseStatus |-> 200]

\* a wait was rejected by a 500 after a 404
C26_RejectedWitness ==
    /\ waiting.status = "rejected"
    /\ waiting.error = "RequestFailedError"
    /\ waiting.fetches = 2

(***************************************************************************)
(* C27: a setOptions operation with an ed25519 signer of weight exactly    *)
(* zero yields an update that removes that signer from the account's       *)
(* signers; with any positive weight it yields an update after which the   *)
(* signers list contains exactly one entry for that key, with the          *)
(* operation's weight, and all other signers are unchanged.                *)
(***************************************************************************)
\* the updates the ledger holds for the account once the operation was ingested
C27_Yielded == getUpdates(accountDataUpdates, FoldURL, FoldAccount)

\* the operation was ingested and its updates were folded over the snapshot once
C27_Folded(operation) ==
    /\ lastOp.op = "submitOperation"
    /\ lastOp.operation = operation
    /\ folds = 1

C27_EntriesOf(signers, key) == SelectSeq(signers, LAMBDA s : s.key = key)
C27_Others(signers, key) == SelectSeq(signers, LAMBDA s : s.key # key)
\* the account's own entry aside, which a masterWeight of the same operation sets
C27_OthersBut(signers, key) == SelectSeq(signers, LAMBDA s : s.key \notin {key, FoldAccount})

C27_SignerUpdate ==
    \A operation \in OptionsOperations :
        C27_Folded(operation) /\ operation.signer.kind = "ed25519PublicKey" =>
            LET key == operation.signer.key
                weight == operation.signer.weight
                kind == IF weight = 0 THEN "removeSigner" ELSE "addSigner"
            IN /\ Len(C27_Yielded) >= 1
               /\ C27_Yielded[1].kind = kind
               /\ C27_Yielded[1].operation = operation
               /\ \A i \in 2..Len(C27_Yielded) : C27_Yielded[i].kind = "setMasterWeight"
               /\ C27_EntriesOf(foldData.signers, key) =
                     IF weight = 0 THEN <<>> ELSE <<Ed25519Signer(key, weight)>>
               /\ C27_OthersBut(foldData.signers, key) = C27_OthersBut(foldBase.signers, key)
               /\ operation.masterWeight = Undef =>
                     /\ Len(C27_Yielded) = 1
                     /\ C27_Others(foldData.signers, key) = C27_Others(foldBase.signers, key)

\* a signer the account had with another weight was set to weight 2
C27_Witness ==
    /\ C27_Folded(SetOptionsOp(NoString, Ed25519Key("K", 2), Undef, Undef, Undef, Undef))
    /\ Ed25519Signer("K", 5) \in Range(foldBase.signers)
    /\ HashSigner("X", 1) \in Range(foldData.signers)
    /\ Ed25519Signer("K", 2) \in Range(foldData.signers)

\* a signer of the account was removed
C27_RemovedWitness ==
    /\ C27_Folded(SetOptionsOp(NoString, Ed25519Key("K", 0), Undef, Undef, Undef, Undef))
    /\ Ed25519Signer("K", 1) \in Range(foldBase.signers)
    /\ Len(foldData.signers) = 1

(***************************************************************************)
(* C28: a changeTrust operation with limit zero yields exactly one update, *)
(* which removes the trustline of the operation's asset; with a non-zero   *)
(* limit it yields exactly one update, which adds a zero-balance trustline *)
(* for the asset with the operation's limit if the account has none, and   *)
(* updates the existing trustline to the operation's limit if it has one.  *)
(***************************************************************************)
\* the trustlines of a record for the asset of the operation
C28_LinesOf(accountData, operation) ==
    SelectSeq(accountData.balances, LAMBDA balance : TrustlineMatches(balance, operation.line))

\* the operation was ingested and its updates were folded over the snapshot once
C28_Folded(operation) ==
    /\ lastOp.op = "submitOperation"
    /\ lastOp.operation = operation
    /\ folds = 1

C28_OneUpdate(operation) ==
    LET yielded == getUpdates(accountDataUpdates, FoldURL, FoldAccount)
    IN /\ Len(yielded) = 1
       /\ yielded[1].operation = operation
       /\ yielded[1].kind = IF operation.limit = 0 THEN "removeTrustline" ELSE "addTrustline"

C28_TrustlineFollowsLimit ==
    \A operation \in TrustOperations :
        C28_Folded(operation) =>
            /\ C28_OneUpdate(operation)
            /\ operation.limit = 0 => C28_LinesOf(foldData, operation) = <<>>
            /\ operation.limit # 0 /\ C28_LinesOf(foldBase, operation) = <<>> =>
                  /\ Len(C28_LinesOf(foldData, operation)) = 1
                  /\ C28_LinesOf(foldData, operation)[1].balance = 0
                  /\ C28_LinesOf(foldData, operation)[1].limit = operation.limit
            /\ operation.limit # 0 /\ C28_LinesOf(foldBase, operation) # <<>> =>
                  /\ Len(C28_LinesOf(foldData, operation)) = 1
                  /\ C28_LinesOf(foldData, operation)[1].limit = operation.limit

\* what the update does when the account has the trustline: nothing
C28_ExistingLineKept ==
    \A operation \in TrustOperations :
        C28_Folded(operation) =>
            /\ C28_OneUpdate(operation)
            /\ operation.limit = 0 => C28_LinesOf(foldData, operation) = <<>>
            /\ operation.limit # 0 /\ C28_LinesOf(foldBase, operation) = <<>> =>
                  foldData.balances = Append(foldBase.balances, NewBalance(operation))
            /\ operation.limit # 0 /\ C28_LinesOf(foldBase, operation) # <<>> =>
                  foldData.balances = foldBase.balances

(***************************************************************************)
(* C29: a setOptions operation that sets masterWeight to w on account A    *)
(* yields an update that, folded over any snapshot of A, sets the weight   *)
(* of A's own signer entry to w and leaves every other signer and every    *)
(* other field of the snapshot unchanged.                                  *)
(***************************************************************************)
\* the operation was ingested and its updates were folded over the snapshot once
C29_Folded(operation) ==
    /\ lastOp.op = "submitOperation"
    /\ lastOp.operation = operation
    /\ folds = 1

\* the signers of a snapshot with the weight of the account's own entry set to w
C29_WithMasterWeight(signers, w) ==
    [i \in 1..Len(signers) |->
        IF signers[i].key = FoldAccount THEN Ed25519Signer(FoldAccount, w) ELSE signers[i]]

\* the operation's updates, the last of which is the one of the masterWeight
C29_Yielded == getUpdates(accountDataUpdates, FoldURL, FoldAccount)

C29_OnlyOwnWeightSet ==
    \A operation \in OptionsOperations :
        C29_Folded(operation) /\ operation.masterWeight # Undef =>
            LET update == C29_Yielded[Len(C29_Yielded)]
                before == Reduce(SubSeq(C29_Yielded, 1, Len(C29_Yielded) - 1), foldBase)
            IN /\ Len(C29_Yielded) >= 1
               /\ update.kind = "setMasterWeight"
               /\ update.operation = operation
               /\ \A i \in 1..(Len(C29_Yielded) - 1) : C29_Yielded[i].kind # "setMasterWeight"
               \* over the record the updates before it left
               /\ foldData = [before EXCEPT
                                 !.signers = C29_WithMasterWeight(before.signers,
                                                                  operation.masterWeight)]
               \* alone, over the snapshot itself
               /\ Len(C29_Yielded) = 1 =>
                     foldData = [foldBase EXCEPT
                                    !.signers = C29_WithMasterWeight(foldBase.signers,
                                                                     operation.masterWeight)]

\* the master weight of an account with two more signers was set to zero
C29_Witness ==
    /\ C29_Folded(SetOptionsOp(NoString, NoSigner, Undef, Undef, Undef, 0))
    /\ Len(foldBase.signers) = 3
    /\ Ed25519Signer(FoldAccount, 1) \in Range(foldBase.signers)
    /\ Ed25519Signer(FoldAccount, 0) \in Range(foldData.signers)
    /\ Ed25519Signer("K", 5) \in Range(foldData.signers)

(***************************************************************************)
(* C30: when the effects stream of account A delivers an account_removed   *)
(* effect whose account is A, that effect is forwarded to the subscription *)
(* and then the stream completes; no message received afterwards is        *)
(* forwarded, and an account_removed effect of a different account does    *)
(* not complete the stream.                                                *)
(***************************************************************************)
C30_Removal(effect) == effect.type = "account_removed" /\ effect.account = StreamAccount

\* what a message does to the stream it arrives on
C30_MessageStep ==
    Len(effectsStream'.received) = Len(effectsStream.received) + 1 =>
        LET effect == effectsStream'.received[Len(effectsStream'.received)]
        IN /\ effectsStream.status = "open" /\ C30_Removal(effect) =>
                 /\ effectsStream'.forwarded = Append(effectsStream.forwarded, effect)
                 /\ effectsStream'.status = "completed"
           /\ effectsStream.status = "open" /\ ~C30_Removal(effect) =>
                 /\ effectsStream'.forwarded = Append(effectsStream.forwarded, effect)
                 /\ effectsStream'.status = "open"
           /\ effectsStream.status = "completed" =>
                 /\ effectsStream'.forwarded = effectsStream.forwarded
                 /\ effectsStream'.status = "completed"

\* a completed stream stays completed and forwards nothing more
C30_CompletedStep ==
    effectsStream.status = "completed" =>
        /\ effectsStream'.status = "completed"
        /\ effectsStream'.forwarded = effectsStream.forwarded

C30_RemovalCompletesTheStream == [][C30_MessageStep /\ C30_CompletedStep]_vars

\* the removal of another account was forwarded, the removal of the account
\* completed the stream and a later message was not forwarded
C30_Witness ==
    /\ effectsStream.status = "completed"
    /\ effectsStream.received = << [type |-> "account_removed", account |-> "B"],
                                   [type |-> "account_removed", account |-> "A"],
                                   [type |-> "account_credited", account |-> "A"] >>
    /\ effectsStream.forwarded = SubSeq(effectsStream.received, 1, 2)

(***************************************************************************)
(* C31: the remove-trustline update removes exactly the balance line of    *)
(* the operation's asset (or liquidity pool) and leaves every other        *)
(* balance line of the account, the native balance included, unchanged,    *)
(* for every mix of regular-asset and liquidity-pool balance lines and     *)
(* both kinds of operation asset.                                          *)
(***************************************************************************)
\* a changeTrust operation with limit zero was ingested and folded once
C31_Folded(operation) ==
    /\ lastOp.op = "submitOperation"
    /\ lastOp.operation = operation
    /\ operation.limit = 0
    /\ folds = 1

\* the balance line is the one of the operation's asset or pool
C31_IsLineOf(balance, line) ==
    IF line.assetType = "liquidity_pool_shares"
    THEN balance.asset_type = "liquidity_pool_shares" /\ balance.liquidity_pool_id = line.poolId
    ELSE /\ balance.asset_type \notin {"liquidity_pool_shares", "native"}
         /\ balance.asset_code = line.code
         /\ balance.asset_issuer = line.issuer

C31_RemovesExactlyTheLine ==
    \A operation \in TrustOperations :
        C31_Folded(operation) =>
            foldData = [foldBase EXCEPT !.balances =
                           SelectSeq(foldBase.balances,
                                     LAMBDA balance : ~C31_IsLineOf(balance, operation.line))]

\* the lines of the operation's kind other than its own are kept, its own is removed
C31_SameKindKept ==
    \A operation \in TrustOperations :
        C31_Folded(operation) =>
            LET pool == operation.line.assetType = "liquidity_pool_shares"
                sameKind(balance) == (balance.asset_type = "liquidity_pool_shares") = pool
            IN foldData = [foldBase EXCEPT !.balances =
                              SelectSeq(foldBase.balances,
                                        LAMBDA balance : /\ sameKind(balance)
                                                         /\ ~C31_IsLineOf(balance, operation.line))]

(***************************************************************************)
(* C33: for every setOptions operation that sets any of lowThreshold,      *)
(* medThreshold or highThreshold, folding the updates produced for it over *)
(* a snapshot yields thresholds equal to the operation's values in the     *)
(* fields it sets and unchanged in the others, also when the same          *)
(* operation carries a signer change.                                      *)
(***************************************************************************)
\* the operation was ingested and its updates were folded over the snapshot once
C33_Folded(operation) ==
    /\ lastOp.op = "submitOperation"
    /\ lastOp.operation = operation
    /\ folds = 1

C33_SetsThreshold(operation) ==
    operation.lowThreshold # Undef \/ operation.medThreshold # Undef \/ operation.highThreshold # Undef

\* the thresholds the operation asks for, over those of the snapshot
C33_Expected(operation, thresholds) ==
    [low_threshold |-> IF operation.lowThreshold # Undef THEN operation.lowThreshold
                       ELSE thresholds.low_threshold,
     med_threshold |-> IF operation.medThreshold # Undef THEN operation.medThreshold
                       ELSE thresholds.med_threshold,
     high_threshold |-> IF operation.highThreshold # Undef THEN operation.highThreshold
                        ELSE thresholds.high_threshold]

C33_ThresholdsApplied ==
    \A operation \in OptionsOperations :
        C33_Folded(operation) /\ C33_SetsThreshold(operation) =>
            foldData.thresholds = C33_Expected(operation, foldBase.thresholds)

\* the operation carries an ed25519 signer with a weight
C33_SignerChange(operation) ==
    operation.signer.kind = "ed25519PublicKey" /\ operation.signer.weight # Undef

\* without such a signer the thresholds are applied; with one they are left as they were
C33_ThresholdsUnlessSigner ==
    \A operation \in OptionsOperations :
        C33_Folded(operation) /\ C33_SetsThreshold(operation) =>
            foldData.thresholds = IF C33_SignerChange(operation)
                                  THEN foldBase.thresholds
                                  ELSE C33_Expected(operation, foldBase.thresholds)

(***************************************************************************)
(* C32: for the open-orders subscription, whenever a fetched set of open   *)
(* orders differs from the last committed set (an offer was added, removed *)
(* or changed), shouldApplyUpdate accepts it, so that the deletion of any  *)
(* open order, not only of the newest one, is committed.                   *)
(***************************************************************************)
C32_Round == lastOp'.op = "fetchAndApplyOpenOrders"

C32_DifferenceStep ==
    C32_Round /\ ordersSub'.fetched # ordersSub.latestSet =>
        ordersSub'.applied /\ ordersSub'.latestSet = ordersSub'.fetched

C32_EveryDifferenceCommitted == [][C32_DifferenceStep]_vars

\* what is committed: a set whose emptiness or whose highest paging token differs
C32_HighestStep ==
    C32_Round =>
        LET update == ordersSub'.fetched
            highest(set) == IF set = <<>> THEN 0 ELSE set[1].paging_token
        IN ordersSub'.applied = (highest(update) # highest(ordersSub.latestSet))

C32_OnlyTheHighestCompared == [][C32_HighestStep]_vars

(***************************************************************************)
(* C34: the account-transactions subscription emits every transaction at   *)
(* most once and in ascending ledger order, for every interleaving of      *)
(* account effects (including two effects arriving within the 200 ms       *)
(* throttle window and effects arriving before the initial cursor fetch    *)
(* has finished) and of the three repeated fetches made per effect.        *)
(***************************************************************************)
C34_Ascending(emitted) == \A i \in 1..(Len(emitted) - 1) : emitted[i] < emitted[i + 1]

C34_OnceAndAscending == C34_Ascending(transactionsSub.emitted)

\* it holds as long as the response of fetchInitial() arrives before the
\* first pass of a generator calls fetchLatestTxs()
C34_AscendingIfInitialFirst ==
    ~transactionsSub.initialLate /\ transactionsSub.initial = "done" =>
        C34_Ascending(transactionsSub.emitted)

(***************************************************************************)
(* C35: for each account cache key at most one waiting loop                *)
(* (waitForAccountDataUncached) is running at any time: callers that       *)
(* arrive while one is running get the same promise, and the entry is      *)
(* removed when the wait settles, by success or by failure, so that a      *)
(* later call starts a new loop.                                           *)
(***************************************************************************)
C35_OneLoop == waiting.loops <= 1

\* the cache holds an entry exactly while the loop runs
C35_EntryWhileRunning == waiting.pending <=> waiting.loops = 1

\* a call of waitForAccountData: it joins the running loop or starts a new one
C35_CallStep ==
    lastOp'.op = "waitForAccountData" /\ waiting'.called # waiting.called =>
        \A caller \in waiting'.called \ waiting.called :
            IF waiting.loops >= 1
            THEN /\ waiting'.started = waiting.started
                 /\ waiting'.promiseOf[caller] = waiting.promiseOf[waiting.starter]
            ELSE /\ waiting'.started = waiting.started + 1
                 /\ waiting'.promiseOf[caller] = waiting'.started
                 /\ \A other \in waiting.called : waiting.promiseOf[other] # waiting'.promiseOf[caller]

C35_OneLoopPerKey == [][C35_OneLoop' /\ C35_EntryWhileRunning' /\ C35_CallStep]_vars

\* a wait has settled and a later call started the second loop
C35_Witness ==
    /\ waiting.started = 2
    /\ waiting.promiseOf = <<1, 2>>
    /\ waiting.status = "fetching"
    /\ waiting.loops = 1

\* two callers were given the promise of one loop
C35_SharedWitness ==
    /\ waiting.started = 1
    /\ waiting.promiseOf = <<1, 1>>
    /\ waiting.status = "resolved"

(***************************************************************************)
(* C36: if the submission of a transaction fulfils, the promise that       *)
(* sendTransaction returned for that transaction resolves; it is rejected  *)
(* only when the dialog is closed without a fulfilled submission, for      *)
(* every interleaving of close requests with a pending submission.         *)
(***************************************************************************)
\* the submission promises of a transaction that have fulfilled
C36_Fulfilled(transaction) ==
    {p \in 1..Len(sender.promises) :
        sender.promises[p].tx = transaction /\ sender.promises[p].state = "fulfilled"}

C36_FulfilledResolves ==
    \A transaction \in 1..MaxSenderTransactions :
        C36_Fulfilled(transaction) # {} => sender.sendPromises[transaction] = "resolved"

\* a promise is rejected in a step that closes the dialog
C36_RejectionStep ==
    \A transaction \in 1..MaxSenderTransactions :
        sender.sendPromises[transaction] = "pending"
        /\ sender'.sendPromises[transaction] = "rejected" =>
            /\ ~sender'.confirmationDialogOpen
            /\ C36_Fulfilled(transaction) = {}

C36_RejectedOnlyWhenClosed == [][C36_RejectionStep]_vars

\* a pending promise is rejected by a close request only and resolved by a
\* fulfilled submission only, and a fulfilment resolves every promise still pending
C36_FulfilStep ==
    \A transaction \in 1..MaxSenderTransactions :
        sender.sendPromises[transaction] = "pending" =>
            /\ sender'.sendPromises[transaction] = "rejected" => lastOp'.op = "closeRequest"
            /\ sender'.sendPromises[transaction] = "resolved" <=> lastOp'.op = "fulfilled"

C36_ResolvesWhilePending == [][C36_FulfilStep]_vars

(***************************************************************************)
(* C37: for every sequence of app:pause and app:resume messages,           *)
(* manageStreamConnection has at most one stream connection that was       *)
(* opened and not yet unsubscribed, and after the returned unsubscribe     *)
(* function is called no connection is open and later messages open none.  *)
(***************************************************************************)
\* the connections opened and not yet unsubscribed
C37_Open == {c \in 1..Len(streamConnection.connections) : streamConnection.connections[c]}

C37_AtMostOneOpen ==
    /\ Cardinality(C37_Open) <= 1
    /\ streamConnection.status = "unsubscribed" => C37_Open = {}

\* after the returned function is called the connection opened last is closed,
\* and no message opens or closes a connection
C37_AfterUnsubscribeStep ==
    streamConnection'.status = "unsubscribed" =>
        /\ ~streamConnection'.connections[streamConnection'.unsubscribeFromCurrent]
        /\ streamConnection.status = "unsubscribed" =>
              streamConnection'.connections = streamConnection.connections

C37_UnsubscribeClosesTheLast == [][C37_AfterUnsubscribeStep]_vars

(***************************************************************************)
(* C38: createMessageDeduplicator's function calls the handler for a       *)
(* message if and only if the message's JSON serialization differs from    *)
(* that of the last message it passed to the handler, so two consecutive   *)
(* handler calls never carry equally serialized messages and the first     *)
(* message is always passed on.                                            *)
(***************************************************************************)
\* the handler was called in the step
C38_Handled == Len(deduplicator'.handled) = Len(deduplicator.handled) + 1

\* the message of the step
C38_Message == deduplicator'.received[Len(deduplicator'.received)]

C38_CallStep ==
    lastOp'.op = "deduplicateMessage" =>
        /\ C38_Handled <=>
              \/ deduplicator.handled = <<>>
              \/ JSONStringifyMessage(C38_Message) #
                    JSONStringifyMessage(deduplicator.handled[Len(deduplicator.handled)])
        /\ C38_Handled => deduplicator'.handled = Append(deduplicator.handled, C38_Message)
        /\ ~C38_Handled => deduplicator'.handled = deduplicator.handled
        /\ \A i \in 1..(Len(deduplicator'.handled) - 1) :
              JSONStringifyMessage(deduplicator'.handled[i]) #
                 JSONStringifyMessage(deduplicator'.handled[i + 1])

C38_HandlerCalledIffSerializationDiffers == [][C38_CallStep]_vars

\* a message was dropped although it is not the object handled last: it has a
\* property more, whose value is undefined
C38_Witness ==
    /\ Len(deduplicator.handled) = 2
    /\ Len(deduplicator.received) = 3
    /\ deduplicator.received[2] # deduplicator.received[1]
    /\ deduplicator.handled[2] = deduplicator.received[3]

\* the first message is undefined and is passed on
C38_FirstWitness ==
    /\ Len(deduplicator.received) = 1
    /\ deduplicator.received[1] = UndefinedMessage
    /\ deduplicator.handled = <<UndefinedMessage>>

(***************************************************************************)
(* C39: lookupFederationRecord returns a cached record without a network   *)
(* call; after a successful resolution the lookup cache maps the address   *)
(* to the record and the reverse cache maps the record's account_id back   *)
(* to the address; when resolution fails neither cache is changed and the  *)
(* error is reported as a request-failed error (request without response), *)
(* a not-found error (404), or the original error.                         *)
(***************************************************************************)
\* the call made in the step finds its address in the lookup cache
C39_CachedStep ==
    /\ Len(federation'.calls) = Len(federation.calls) + 1
    /\ federation'.calls[Len(federation'.calls)].address \in DOMAIN federation.lookupCache

\* the error the catch block has to throw for a rejection
C39_Reported(error, thrown) ==
    IF error.request /\ error.response = 0
    THEN thrown.name = "DigitalBitsAddressRequestFailedError"
    ELSE IF error.response = 404 \/ error.message = NotFoundMessage
    THEN thrown.name = "DigitalBitsAddressNotFoundError"
    ELSE thrown = error

C39_Step ==
    /\ C39_CachedStep =>
          LET call == federation'.calls[Len(federation'.calls)]
          IN /\ call.stage = "returned"
             /\ call.returned = federation.lookupCache[call.address]
             /\ federation'.networkCalls = federation.networkCalls
    /\ \A c \in 1..Len(federation.calls) :
          LET before == federation.calls[c]
              after == federation'.calls[c]
          IN before.stage = "resolving" =>
                /\ after.stage = "returned" =>
                      /\ after.returned \in FederationRecords
                      /\ federation'.lookupCache[before.address] = after.returned
                      /\ federation'.reverseLookupCache[after.returned.account_id] =
                            before.address
                /\ after.stage = "thrown" =>
                      /\ federation'.lookupCache = federation.lookupCache
                      /\ federation'.reverseLookupCache = federation.reverseLookupCache
                      /\ C39_Reported(after.error, after.thrown)

C39_CachedResolvedOrReported == [][C39_Step]_vars

\* one lookup was resolved by the net worker, one was answered from the cache,
\* and one failed with a 404 response
C39_Witness ==
    /\ Len(federation.calls) = 3
    /\ federation.networkCalls = 2
    /\ \E c \in 1..3 : /\ federation.calls[c].stage = "thrown"
                       /\ federation.calls[c].error.response = 404
                       /\ federation.calls[c].thrown.name = "DigitalBitsAddressNotFoundError"
    /\ \E c \in 1..3 : federation.calls[c].stage = "returned"
                       /\ federation.reverseLookupCache[federation.calls[c].returned.account_id]
                             = federation.calls[c].address

====
